---- MODULE Spec2Model ----
(***************************************************************************)
(* PacifiqueTrade indicator 2.0: the signal composition pipeline.          *)
(*                                                                         *)
(*   - SignalGenerator.generate_signal / generate_signals                  *)
(*   - TrailingStopManager.should_update_stop                              *)
(*   - SLTPCalculator.calculate_sl_tp                                      *)
(*                                                                         *)
(* Prices are integers, in price points of which ten make a pip (1.00000   *)
(* is 100000); a percentage of a price is kept exact by cross-multiplying  *)
(* or by prices that the percentage divides.  Scores and R-multiples are  *)
(* in tenths.  An Optional value is a sequence: <<>> is None, <<x>> is x.  *)
(***************************************************************************)
EXTENDS Integers, Sequences, FiniteSets, TLC

VARIABLES
    \* ---- SignalGenerator.generate_signal: position and locals ----
    sg_pc,          \* "idle" | "step1" | "step2" | "step4" | "step5" | "returned"
    sg_pair,        \* the pair argument
    calls,          \* collaborator calls made by the current invocation, in order
    fundamental,    \* Optional FundamentalSignal
    trend_h4,       \* Optional TrendAnalysis
    trend_h1,       \* Optional TrendAnalysis
    zones,          \* list of LiquidityZone returned by detect_all_zones
    current_price,  \* Optional price
    result,         \* outcome of the invocation: returned value or raised error
    \* ---- SignalGenerator.generate_signals: the loop over pairs ----
    batch_pc,       \* "idle" | "loop" | "done"
    todo,           \* pairs still to iterate
    signals,        \* the dict returned: pair -> TradingSignal
    log,            \* one entry per processed pair: what was logged for it
    \* ---- TrailingStopManager driven for one position ----
    position,       \* Optional [direction, entry_price, initial_stop, current_stop]
    last_check,     \* Optional record of the last should_update_stop call
    \* ---- SLTPCalculator.calculate_sl_tp ----
    sltp_call,      \* Optional record of the last call: arguments and outcome
    \* ---- PositionSizer.calculate_position_size ----
    size_call,      \* Optional record of the last call: sizer, arguments, outcome
    \* ---- JobScheduler._run_signal_generation: the enrichment loop ----
    job_pc,         \* "idle" | "loop" | "done"
    job_config,     \* the configuration the sizer and the notifier were built from
    job_todo,       \* signals of generate_signals still to enrich
    job_signals,    \* pair -> the TradingSignal object as it stands
    active_signals, \* pair -> the 'complete_signal' entry stored, if any
    alerts,         \* READY TO TRADE alerts handed to the notifier
    \* ---- MarketDataFetcher.fetch_data ----
    fetch_call,     \* Optional record of the last call: what yfinance did, outcome
    \* ---- TelegramNotifier.send_message ----
    tg_pc,          \* "idle" | "attempt" | "done"
    tg_retry_count, \* the retry_count argument
    tg_attempt,     \* the loop variable
    tg_trace,       \* what happened so far: sends and sleeps, in order
    tg_result,      \* outcome of the call
    \* ---- main() ----
    main_call,      \* Optional record of one run of main(): configuration, outcome
    \* ---- FundamentalAnalyzer scoring, TrendDetector decision ----
    score_call,     \* Optional record of one _analyze_pair evaluation
    trend_call,     \* Optional record of one analyze_trend evaluation
    \* ---- LiquidityZoneDetector scans ----
    zone_call,      \* Optional record of one scan: the candles and the zones
    \* ---- PositionMonitor: one monitored position ----
    mon_position,   \* Optional entry of active_positions
    mon_alerts,     \* the take-profit alerts handed to the notifier, in order
    mon_last,       \* Optional record of the last poll
    \* ---- JobScheduler: the four jobs of a session ----
    sched_active_signals,   \* the active_signals dict: key -> entry
    sched_active_trades,    \* the active_trades dict: pair -> signal data
    sched_log,              \* Optional record of the last job run
    sched_clock,            \* the next job of the day, by its place in the cron order
    \* ---- alignment checks, economic calendar ----
    align_call,     \* Optional record of one comparison of the two checks
    cal_call        \* Optional record of one fetch_calendar and its analysis

vars == <<sg_pc, sg_pair, calls, fundamental, trend_h4, trend_h1, zones,
          current_price, result, batch_pc, todo, signals, log,
          position, last_check, sltp_call,
          size_call, job_pc, job_config, job_todo, job_signals, active_signals,
          alerts, fetch_call, tg_pc, tg_retry_count, tg_attempt, tg_trace,
          tg_result, main_call, score_call, trend_call,
          zone_call, mon_position, mon_alerts, mon_last,
          sched_active_signals, sched_active_trades, sched_log, sched_clock,
          align_call, cal_call>>

sg_locals == <<sg_pair, calls, fundamental, trend_h4, trend_h1, zones,
               current_price, result>>
sg_vars == <<sg_pc, sg_pair, calls, fundamental, trend_h4, trend_h1, zones,
             current_price, result>>
batch_vars == <<batch_pc, todo, signals, log>>
trailing_vars == <<position, last_check>>
sltp_vars == <<sltp_call>>
sizing_vars == <<size_call>>
job_vars == <<job_pc, job_config, job_todo, job_signals, active_signals, alerts>>
fetch_vars == <<fetch_call>>
tg_vars == <<tg_pc, tg_retry_count, tg_attempt, tg_trace, tg_result>>
main_vars == <<main_call>>
score_vars == <<score_call>>
trend_vars == <<trend_call>>
scan_vars == <<zone_call>>
mon_vars == <<mon_position, mon_alerts, mon_last>>
sched_vars == <<sched_active_signals, sched_active_trades, sched_log,
               sched_clock>>
align_vars == <<align_call>>
cal_vars == <<cal_call>>
late_vars == <<scan_vars, mon_vars, sched_vars, align_vars, cal_vars>>

\* the four groups of the signal generator and the stop calculators, and the
\* groups beside them
core_vars == <<sg_vars, batch_vars, trailing_vars, sltp_vars>>
mid_vars == <<sizing_vars, job_vars, fetch_vars, tg_vars, main_vars,
              score_vars, trend_vars>>
other_vars == <<mid_vars, late_vars>>

----------------------------------------------------------------------------
(* Optional values and small helpers *)

None == <<>>
Some(x) == <<x>>
Val(o) == o[1]

Abs(x) == IF x < 0 THEN -x ELSE x
Range(s) == {s[i] : i \in 1..Len(s)}

----------------------------------------------------------------------------
(* core/enums.py *)

BULLISH == "bullish"
BEARISH == "bearish"
SIDEWAYS == "sideways"

USD_STRONGER == "usd_stronger"
USD_WEAKER == "usd_weaker"
COUNTERPARTY_STRONGER == "counterparty_stronger"
COUNTERPARTY_WEAKER == "counterparty_weaker"

PENDING == "pending"

CurrencyPair == {"GBP/USD", "EUR/USD", "USD/JPY"}

quote_currency(pair) == IF pair = "USD/JPY" THEN "JPY" ELSE "USD"

\* LiquidityZoneType values produced by the detector's scans
LiquidityZoneType == {"equal_highs", "equal_lows", "stop_hunt_buy",
                      "stop_hunt_sell", "fvg_bullish", "fvg_bearish"}

----------------------------------------------------------------------------
(* analysis/fundamental.py *)

\* adjusted_score = score_diff * min(event_count / 3.0, 1.5), compared with
\* 8, 5, 3, 1.5; here times 60 (score_diff in tenths, the multiplier times 6).
_calculate_strength(score_diff10, event_count) ==
    LET event_multiplier6 == IF 2 * event_count < 9 THEN 2 * event_count ELSE 9
        adjusted60 == score_diff10 * event_multiplier6
    IN  IF adjusted60 >= 480 THEN 5
        ELSE IF adjusted60 >= 300 THEN 4
        ELSE IF adjusted60 >= 180 THEN 3
        ELSE IF adjusted60 >= 90 THEN 2
        ELSE 1

\* _analyze_pair from the two currency scores (tenths) and the event count
_analyze_pair(pair, base_score10, quote_score10, event_count) ==
    LET score_diff10 == base_score10 - quote_score10
        direction ==
            IF score_diff10 > 0
            THEN (IF quote_currency(pair) = "USD" THEN USD_WEAKER
                  ELSE COUNTERPARTY_STRONGER)
            ELSE (IF quote_currency(pair) = "USD" THEN USD_STRONGER
                  ELSE COUNTERPARTY_WEAKER)
    IN  IF Abs(score_diff10) < 10 THEN None
        ELSE Some([pair |-> pair,
                   direction |-> direction,
                   strength |-> _calculate_strength(Abs(score_diff10), event_count)])

\* analyze_today([pair]) seen from generate_signal: the entry for the pair, or
\* None when the pair has no high-impact news or _analyze_pair gives no signal
analyze_today(pair, event_count, base_score10, quote_score10) ==
    IF event_count = 0 THEN None
    ELSE _analyze_pair(pair, base_score10, quote_score10, event_count)

----------------------------------------------------------------------------
(* analysis/trend_detector.py *)

\* A variant of the direction decision that wants the confirming pattern
_determine_trend_confirmed_only(ema_cmp, high_cmp, low_cmp) ==
    IF ema_cmp > 0 /\ high_cmp > 0 /\ low_cmp > 0 THEN BULLISH
    ELSE IF ema_cmp < 0 /\ high_cmp < 0 /\ low_cmp < 0 THEN BEARISH
    ELSE SIDEWAYS

\* _determine_trend: ema_cmp is the sign of ema50 - ema200; the four pattern
\* flags come from the sign of (recent high - previous high) and of
\* (recent low - previous low), as the four _detect_* functions compute them.
_determine_trend(ema_cmp, high_cmp, low_cmp) ==
    LET higher_highs == high_cmp > 0
        higher_lows == low_cmp > 0
        lower_highs == high_cmp < 0
        lower_lows == low_cmp < 0
    IN  IF ema_cmp > 0
        THEN (IF higher_highs /\ higher_lows THEN BULLISH
              ELSE IF ~(lower_highs /\ lower_lows) THEN BULLISH
              ELSE SIDEWAYS)
        ELSE IF ema_cmp < 0
        THEN (IF lower_highs /\ lower_lows THEN BEARISH
              ELSE IF ~(higher_highs /\ higher_lows) THEN BEARISH
              ELSE SIDEWAYS)
        ELSE SIDEWAYS

analyze_trend(pair, timeframe, ema_cmp, high_cmp, low_cmp) ==
    [pair |-> pair, timeframe |-> timeframe,
     direction |-> _determine_trend(ema_cmp, high_cmp, low_cmp)]

Signs == {-1, 0, 1}

----------------------------------------------------------------------------
(* analysis/liquidity_zones.py *)

\* price_range as the scans build it around the level: a buy stop-hunt's range
\* starts at its level, a sell stop-hunt's range ends at it, the others hold it
ZoneRange(zone_type, level, w) ==
    IF zone_type = "stop_hunt_buy" THEN <<level, level + w>>
    ELSE IF zone_type = "stop_hunt_sell" THEN <<level - w, level>>
    ELSE <<level - w, level + w>>

\* strength: min(5, touches) for equal highs/lows, 4 for stop-hunts, 3 for FVGs
ZoneStrengths(zone_type, equal_strengths) ==
    IF zone_type \in {"equal_highs", "equal_lows"} THEN equal_strengths
    ELSE IF zone_type \in {"stop_hunt_buy", "stop_hunt_sell"} THEN {4}
    ELSE {3}

LiquidityZone(levels, widths, equal_strengths) ==
    UNION { UNION { { [zone_type |-> t, price_level |-> l,
                       price_range |-> ZoneRange(t, l, w), strength |-> s]
                      : s \in ZoneStrengths(t, equal_strengths) }
                    : w \in widths }
            : <<t, l>> \in LiquidityZoneType \X levels }

\* detect_all_zones extends the list scan by scan: equal highs, equal lows,
\* stop-hunts, fair value gaps
ScanGroup(z) ==
    CASE z.zone_type = "equal_highs" -> 1
      [] z.zone_type = "equal_lows" -> 2
      [] z.zone_type \in {"stop_hunt_buy", "stop_hunt_sell"} -> 3
      [] OTHER -> 4

InScanOrder(s) == \A i \in 1..Len(s) : \A j \in i..Len(s) : ScanGroup(s[i]) <= ScanGroup(s[j])

\* list.sort(key=...) is stable: an element goes after the ones whose key is
\* not greater than its own
RECURSIVE InsertByKey(_, _)
InsertByKey(e, sorted) ==
    IF sorted = <<>> THEN <<e>>
    ELSE IF Head(sorted).key <= e.key
         THEN <<Head(sorted)>> \o InsertByKey(e, Tail(sorted))
         ELSE <<e>> \o sorted

RECURSIVE SortKeyed(_)
SortKeyed(s) ==
    IF s = <<>> THEN <<>>
    ELSE InsertByKey(s[Len(s)], SortKeyed(SubSeq(s, 1, Len(s) - 1)))

StableSort(s, Key(_)) ==
    LET keyed == [i \in 1..Len(s) |-> [key |-> Key(s[i]), item |-> s[i]]]
        sorted == SortKeyed(keyed)
    IN  [i \in 1..Len(s) |-> sorted[i].item]

\* zones.sort(key=lambda z: z.strength, reverse=True), the last step of
\* detect_all_zones
detect_all_zones(found) ==
    LET Key(z) == -z.strength IN StableSort(found, Key)

\* mutant: the sort by distance forgotten
get_zones_near_price_unsorted(zs, price, distance_pct10) ==
    LET Near(z) == IF price > 0
                   THEN Abs(z.price_level - price) * 1000 <= distance_pct10 * price
                   ELSE TRUE
    IN  SelectSeq(zs, Near)

\* distance = abs(level - price) / price <= distance_pct / 100, with
\* distance_pct in tenths of a percent (0.5 is 5); under a negative price the
\* quotient is never positive, so every zone passes (a zero price divides by
\* zero in the caller's hands); then
\* nearby_zones.sort(key=lambda z: abs(z.price_level - current_price))
get_zones_near_price(zs, price, distance_pct10) ==
    LET Near(z) == IF price > 0
                   THEN Abs(z.price_level - price) * 1000 <= distance_pct10 * price
                   ELSE TRUE
        Key(z) == Abs(z.price_level - price)
    IN  StableSort(SelectSeq(zs, Near), Key)

----------------------------------------------------------------------------
(* analysis/signal_generator.py *)

\* mutant: the strength check forgotten
fundamental_gate_no_strength(fund) ==
    IF fund = None THEN "no_fundamental" ELSE "ok"

\* the fundamental gate of generate_signal: "ok" or the reason for None
fundamental_gate(fund) ==
    IF fund = None THEN "no_fundamental"
    ELSE IF Val(fund).strength < 2 THEN "fundamental_weak"
    ELSE "ok"

\* mutant: the bearish branch tests the bullish readings
_check_alignment_same_list(fund, trend) ==
    IF trend.direction = BULLISH
    THEN fund.direction \in {USD_WEAKER, COUNTERPARTY_STRONGER}
    ELSE IF trend.direction = BEARISH
    THEN fund.direction \in {USD_WEAKER, COUNTERPARTY_STRONGER}
    ELSE FALSE

_check_alignment(fund, trend) ==
    IF trend.direction = BULLISH
    THEN fund.direction \in {USD_WEAKER, COUNTERPARTY_STRONGER}
    ELSE IF trend.direction = BEARISH
    THEN fund.direction \in {USD_STRONGER, COUNTERPARTY_WEAKER}
    ELSE FALSE

\* mutant: only the H1 confirmation is made
trend_gates_h1_only(fund, h4, h1) ==
    IF h1.direction # h4.direction THEN "h1_mismatch" ELSE "ok"

\* the H4 check, the H1 confirmation and the alignment check of generate_signal
trend_gates(fund, h4, h1) ==
    IF h4.direction = SIDEWAYS THEN "h4_sideways"
    ELSE IF h1.direction # h4.direction THEN "h1_mismatch"
    ELSE IF ~_check_alignment(fund, h4) THEN "not_aligned"
    ELSE "ok"

_find_best_entry_zone(zs, direction) ==
    LET IsSupport(z) == z.zone_type \in {"equal_lows", "stop_hunt_buy", "bullish_fvg"}
        IsResistance(z) == z.zone_type \in {"equal_highs", "stop_hunt_sell", "bearish_fvg"}
        support_zones == SelectSeq(zs, IsSupport)
        resistance_zones == SelectSeq(zs, IsResistance)
    IN  IF zs = <<>> THEN None
        ELSE IF direction = "long"
        THEN (IF support_zones # <<>> THEN Some(support_zones[1]) ELSE Some(zs[1]))
        ELSE (IF resistance_zones # <<>> THEN Some(resistance_zones[1]) ELSE Some(zs[1]))

\* mutant: the direction test inverted
signal_direction_swapped(h4) == IF h4.direction = BULLISH THEN "short" ELSE "long"

\* direction = 'long' if trend_h4.direction == TrendDirection.BULLISH else 'short'
signal_direction(h4) == IF h4.direction = BULLISH THEN "long" ELSE "short"

\* the TradingSignal built once every gate has passed
TradingSignal(pair, fund, h4, h1, nearby_zones, price) ==
    [pair |-> pair,
     direction |-> signal_direction(h4),
     status |-> PENDING,
     fundamental |-> fund,
     trend_h4 |-> h4,
     trend_h1 |-> h1,
     liquidity_zones |-> nearby_zones,
     entry_price |-> price,
     entry_zone |-> _find_best_entry_zone(nearby_zones, signal_direction(h4)),
     stop_loss |-> None,
     take_profit_1 |-> None,
     take_profit_2 |-> None,
     take_profit_3 |-> None,
     risk_reward |-> None]

\* distance_pct=0.5 in generate_signal, in tenths of a percent
NearbyDistancePct10 == 5

Pending == [kind |-> "pending", value |-> None, error |-> ""]
Returned(v) == [kind |-> "returned", value |-> v, error |-> ""]
Raised(e) == [kind |-> "raised", value |-> None, error |-> e]

----------------------------------------------------------------------------
(* Bounds and input sets of the signal generator *)

\* most events a pair has on one day
MaxEvents == 4
\* most zones one detect_all_zones scan returns
MaxZones == 2

\* currency scores, in tenths, within the clamp [-10, +10]
Scores10 == {-100, -30, 0, 5, 30}
\* zone levels and current prices, in price points; 0 is get_current_price's
\* answer when no candle is available
ZoneLevels == {99400, 99500, 99800, 100200}
ZoneWidths == {100}
EqualStrengths == {2}
CurrentPrices == {0, 100000, 100100}

SeqsUpTo(S, n) == UNION {[1..k -> S] : k \in 0..n}

\* what the four scans of one detect_all_zones call can have found
FoundLists == {s \in SeqsUpTo(LiquidityZone(ZoneLevels, ZoneWidths, EqualStrengths), MaxZones) :
                 InScanOrder(s)}

----------------------------------------------------------------------------
(* SignalGenerator.generate_signal, one collaborator call per step *)

\* entry: logger.info, locals unset
EnterGenerateSignal(pair) ==
    /\ sg_pc' = "step1"
    /\ sg_pair' = pair
    /\ calls' = <<>>
    /\ fundamental' = None
    /\ trend_h4' = None
    /\ trend_h1' = None
    /\ zones' = <<>>
    /\ current_price' = None
    /\ result' = Pending

\* a direct call of generate_signal(pair)
CallGenerateSignal ==
    /\ batch_pc = "idle"
    /\ sg_pc \in {"idle", "returned"}
    /\ \E pair \in CurrencyPair : EnterGenerateSignal(pair)
    /\ UNCHANGED <<batch_vars, trailing_vars, sltp_vars, other_vars>>

\* Step 1: fundamental analysis and the fundamental gate
Step1(scores, event_counts) ==
    /\ sg_pc = "step1"
    /\ calls' = Append(calls, "analyze_today")
    /\ \E n \in event_counts, b \in scores, q \in scores :
         LET fund == analyze_today(sg_pair, n, b, q) IN
           /\ fundamental' = fund
           /\ IF fundamental_gate(fund) = "ok"
              THEN sg_pc' = "step2" /\ result' = result
              ELSE sg_pc' = "returned" /\ result' = Returned(None)
    /\ UNCHANGED <<sg_pair, trend_h4, trend_h1, zones, current_price>>
    /\ UNCHANGED <<batch_vars, trailing_vars, sltp_vars, other_vars>>

\* Step 2 and 3: analyze_multi_timeframe (H4, then H1), the H4 check, the H1
\* confirmation and the alignment check
Step2 ==
    /\ sg_pc = "step2"
    /\ \/ \* analyze_trend(pair, H4) raises
          /\ calls' = Append(calls, "analyze_trend_H4")
          /\ result' = Raised("TrendDetectionError")
          /\ sg_pc' = "returned"
          /\ UNCHANGED <<trend_h4, trend_h1>>
       \/ \* analyze_trend(pair, H1) raises
          /\ calls' = calls \o <<"analyze_trend_H4", "analyze_trend_H1">>
          /\ result' = Raised("TrendDetectionError")
          /\ sg_pc' = "returned"
          /\ UNCHANGED <<trend_h4, trend_h1>>
       \/ \E e4 \in Signs, hi4 \in Signs, lo4 \in Signs,
             e1 \in Signs, hi1 \in Signs, lo1 \in Signs :
            LET h4 == analyze_trend(sg_pair, "H4", e4, hi4, lo4)
                h1 == analyze_trend(sg_pair, "H1", e1, hi1, lo1)
            IN  /\ calls' = calls \o <<"analyze_trend_H4", "analyze_trend_H1">>
                /\ trend_h4' = Some(h4)
                /\ trend_h1' = Some(h1)
                /\ IF trend_gates(Val(fundamental), h4, h1) = "ok"
                   THEN sg_pc' = "step4" /\ result' = result
                   ELSE sg_pc' = "returned" /\ result' = Returned(None)
    /\ UNCHANGED <<sg_pair, fundamental, zones, current_price>>
    /\ UNCHANGED <<batch_vars, trailing_vars, sltp_vars, other_vars>>

\* Step 4: detect_all_zones(pair, M15) and the "any zone at all" gate
Step4(found_lists) ==
    /\ sg_pc = "step4"
    /\ calls' = Append(calls, "detect_all_zones")
    /\ \/ /\ result' = Raised("LiquidityZoneError")
          /\ sg_pc' = "returned"
          /\ zones' = zones
       \/ \E found \in found_lists :
            /\ zones' = detect_all_zones(found)
            /\ IF zones' # <<>>
               THEN sg_pc' = "step5" /\ result' = result
               ELSE sg_pc' = "returned" /\ result' = Returned(None)
    /\ UNCHANGED <<sg_pair, fundamental, trend_h4, trend_h1, current_price>>
    /\ UNCHANGED <<batch_vars, trailing_vars, sltp_vars, other_vars>>

\* Step 5: get_current_price, get_zones_near_price, the "zone nearby" gate
\* and the construction of the TradingSignal
Step5(prices) ==
    /\ sg_pc = "step5"
    /\ calls' = Append(calls, "get_current_price")
    /\ sg_pc' = "returned"
    /\ \/ /\ result' = Raised("MarketDataError")
          /\ current_price' = current_price
       \/ \E price \in prices :
            /\ current_price' = Some(price)
            /\ IF price = 0
               THEN \* abs(...) / current_price divides by zero
                    result' = Raised("ZeroDivisionError")
               ELSE LET nearby_zones ==
                            get_zones_near_price(zones, price, NearbyDistancePct10)
                    IN  IF nearby_zones = <<>>
                        THEN result' = Returned(None)
                        ELSE result' = Returned(Some(
                                 TradingSignal(sg_pair, Val(fundamental), Val(trend_h4),
                                               Val(trend_h1), nearby_zones, price)))
    /\ UNCHANGED <<sg_pair, fundamental, trend_h4, trend_h1, zones>>
    /\ UNCHANGED <<batch_vars, trailing_vars, sltp_vars, other_vars>>

----------------------------------------------------------------------------
(* Initial state and the specification of direct generate_signal calls *)

Init ==
    /\ sg_pc = "idle"
    /\ sg_pair = "GBP/USD"
    /\ calls = <<>>
    /\ fundamental = None
    /\ trend_h4 = None
    /\ trend_h1 = None
    /\ zones = <<>>
    /\ current_price = None
    /\ result = Pending
    /\ batch_pc = "idle"
    /\ todo = <<>>
    /\ signals = <<>>
    /\ log = <<>>
    /\ position = None
    /\ last_check = None
    /\ sltp_call = None
    /\ size_call = None
    /\ job_pc = "idle"
    /\ job_config = None
    /\ job_todo = <<>>
    /\ job_signals = <<>>
    /\ active_signals = <<>>
    /\ alerts = <<>>
    /\ fetch_call = None
    /\ tg_pc = "idle"
    /\ tg_retry_count = 0
    /\ tg_attempt = 0
    /\ tg_trace = <<>>
    /\ tg_result = Pending
    /\ main_call = None
    /\ score_call = None
    /\ trend_call = None
    /\ zone_call = None
    /\ mon_position = None
    /\ mon_alerts = <<>>
    /\ mon_last = None
    /\ sched_active_signals = <<>>
    /\ sched_active_trades = <<>>
    /\ sched_log = None
    /\ sched_clock = 1
    /\ align_call = None
    /\ cal_call = None

Next ==
    \/ CallGenerateSignal
    \/ Step1(Scores10, 0..MaxEvents)
    \/ Step2
    \/ Step4(FoundLists)
    \/ Step5(CurrentPrices)

Spec == Init /\ [][Next]_vars

----------------------------------------------------------------------------
(* SignalGenerator.generate_signals: the loop over the pairs *)

\* most pairs in one generate_signals call
MaxPairs == 2

Distinct(s) == \A i \in 1..Len(s) : \A j \in 1..Len(s) : s[i] = s[j] => i = j
PairLists == {s \in SeqsUpTo(CurrencyPair, MaxPairs) : Distinct(s)}

\* the collaborators' answers in the runs over several pairs
BatchScores10 == {0, 30}
BatchEventCounts == {0, 1, 3}
BatchFoundLists ==
    {<<>>,
     <<[zone_type |-> "equal_lows", price_level |-> 99800,
        price_range |-> <<99700, 99900>>, strength |-> 2]>>,
     <<[zone_type |-> "stop_hunt_sell", price_level |-> 99400,
        price_range |-> <<99300, 99400>>, strength |-> 4]>>}
BatchPrices == {0, 100000}

GenerateSignals ==
    /\ batch_pc \in {"idle", "done"}
    /\ sg_pc = "idle"
    /\ \E pairs \in PairLists : todo' = pairs
    /\ signals' = <<>>
    /\ log' = <<>>
    /\ batch_pc' = "loop"
    /\ UNCHANGED <<sg_vars, trailing_vars, sltp_vars, other_vars>>

\* for pair in pairs: signal = self.generate_signal(pair)
LoopCall ==
    /\ batch_pc = "loop"
    /\ sg_pc = "idle"
    /\ todo # <<>>
    /\ EnterGenerateSignal(Head(todo))
    /\ UNCHANGED <<batch_vars, trailing_vars, sltp_vars, other_vars>>

\* the body of the loop after the call: store the signal, or log why there
\* is none; an exception is logged and the loop continues
LoopHandle ==
    /\ batch_pc = "loop"
    /\ sg_pc = "returned"
    /\ IF result.kind = "raised"
       THEN /\ log' = Append(log, [pair |-> sg_pair, level |-> "error",
                                   message |-> "Failed to generate signal"])
            /\ signals' = signals
       ELSE IF result.value # None
       THEN /\ signals' = [p \in DOMAIN signals \cup {sg_pair} |->
                              IF p = sg_pair THEN Val(result.value) ELSE signals[p]]
            /\ log' = Append(log, [pair |-> sg_pair, level |-> "info",
                                   message |-> "Generated signal"])
       ELSE /\ log' = Append(log, [pair |-> sg_pair, level |-> "info",
                                   message |-> "No signal - conditions not met"])
            /\ signals' = signals
    /\ todo' = Tail(todo)
    /\ sg_pc' = "idle"
    /\ UNCHANGED <<batch_pc, sg_locals, trailing_vars, sltp_vars, other_vars>>

\* return signals
LoopReturn ==
    /\ batch_pc = "loop"
    /\ sg_pc = "idle"
    /\ todo = <<>>
    /\ batch_pc' = "done"
    /\ UNCHANGED <<todo, signals, log, sg_vars, trailing_vars, sltp_vars, other_vars>>

NextBatch ==
    \/ GenerateSignals
    \/ LoopCall
    \/ Step1(BatchScores10, BatchEventCounts)
    \/ Step2
    \/ Step4(BatchFoundLists)
    \/ Step5(BatchPrices)
    \/ LoopHandle
    \/ LoopReturn

SpecBatch == Init /\ [][NextBatch]_vars

----------------------------------------------------------------------------
(* Properties of generate_signal *)

HasReturned == sg_pc = "returned" /\ result.kind = "returned"
ReturnedSignal == HasReturned /\ result.value # None
TheSignal == Val(result.value)

FundamentalPassed == fundamental # None /\ Val(fundamental).strength >= 2
TrendPassed ==
    /\ trend_h4 # None
    /\ trend_h1 # None
    /\ Val(trend_h4).direction \in {BULLISH, BEARISH}
    /\ Val(trend_h1).direction = Val(trend_h4).direction
Consistent(fund_dir, trend_dir) ==
    \/ trend_dir = BULLISH /\ fund_dir \in {USD_WEAKER, COUNTERPARTY_STRONGER}
    \/ trend_dir = BEARISH /\ fund_dir \in {USD_STRONGER, COUNTERPARTY_WEAKER}
AlignmentPassed ==
    /\ fundamental # None
    /\ trend_h4 # None
    /\ Consistent(Val(fundamental).direction, Val(trend_h4).direction)

\* C1: when generate_signal has obtained the trend analyses and the H4 trend
\* is sideways, it returns None, whatever the fundamental signal and the H1
\* trend are: no TradingSignal comes out and neither the liquidity detector
\* nor the price is consulted.
C1_SidewaysReturnsNone ==
    (sg_pc \in {"step4", "step5", "returned"} /\ trend_h4 # None
        /\ Val(trend_h4).direction = SIDEWAYS)
    => /\ sg_pc = "returned"
       /\ result = Returned(None)
       /\ calls = <<"analyze_today", "analyze_trend_H4", "analyze_trend_H1">>

\* reached: H4 and H1 both sideways under a MODERATE fundamental signal
C1_Witness ==
    /\ sg_pc = "returned"
    /\ trend_h4 # None /\ Val(trend_h4).direction = SIDEWAYS
    /\ Val(trend_h1).direction = SIDEWAYS
    /\ Val(fundamental).strength = 3
    /\ result = Returned(None)

\* C2: every TradingSignal returned has fundamental strength >= 2, an H4
\* direction that is bullish or bearish, an H1 direction equal to it, and a
\* fundamental direction consistent with the trend.
C2_SignalOnlyWhenAligned ==
    ReturnedSignal =>
        /\ TheSignal.fundamental.strength >= 2
        /\ TheSignal.trend_h4.direction \in {BULLISH, BEARISH}
        /\ TheSignal.trend_h1.direction = TheSignal.trend_h4.direction
        /\ Consistent(TheSignal.fundamental.direction, TheSignal.trend_h4.direction)
        /\ TheSignal.fundamental = Val(fundamental)
        /\ TheSignal.trend_h4 = Val(trend_h4)
        /\ TheSignal.trend_h1 = Val(trend_h1)

\* reached: a bearish USD/JPY signal on a WEAK "counterparty weaker" reading
C2_Witness ==
    /\ ReturnedSignal
    /\ TheSignal.pair = "USD/JPY"
    /\ TheSignal.trend_h4.direction = BEARISH
    /\ TheSignal.fundamental.direction = COUNTERPARTY_WEAKER
    /\ TheSignal.fundamental.strength = 2

CallOrder == <<"analyze_today", "analyze_trend_H4", "analyze_trend_H1",
               "detect_all_zones", "get_current_price">>
Called(c) == c \in Range(calls)

\* C6: the collaborators are called in the order fundamental, trend H4, trend
\* H1, liquidity zones, current price; the trend detector only after the
\* fundamental gate passed, the liquidity detector and the price fetch only
\* after the trend and alignment gates passed (the price only with a zone
\* found); a None result comes right after the first failing gate.
C6_GateOrder ==
    /\ Len(calls) <= Len(CallOrder)
    /\ calls = SubSeq(CallOrder, 1, Len(calls))
    /\ Called("analyze_trend_H4") => FundamentalPassed
    /\ Called("detect_all_zones") => FundamentalPassed /\ TrendPassed /\ AlignmentPassed
    /\ Called("get_current_price") => zones # <<>>
    /\ (HasReturned /\ ~FundamentalPassed) => Len(calls) = 1
    /\ (HasReturned /\ FundamentalPassed /\ ~(TrendPassed /\ AlignmentPassed))
         => Len(calls) = 3
    /\ (HasReturned /\ Called("detect_all_zones") /\ zones = <<>>) => Len(calls) = 4

\* reached: the trend gate passed, the alignment gate failed, and the call
\* returned None without asking for zones or price
C6_Witness ==
    /\ HasReturned
    /\ FundamentalPassed /\ TrendPassed /\ ~AlignmentPassed
    /\ result.value = None
    /\ Len(calls) = 3

\* zone types by the side they stand for (core/enums.py values)
SupportTypes == {"equal_lows", "stop_hunt_buy", "fvg_bullish"}
ResistanceTypes == {"equal_highs", "stop_hunt_sell", "fvg_bearish"}

FirstOfType(zs, types) ==
    LET idx == {i \in 1..Len(zs) : zs[i].zone_type \in types}
    IN  IF idx = {} THEN None
        ELSE Some(zs[CHOOSE i \in idx : \A j \in idx : i <= j])

\* C7: the entry zone of a long signal is the nearest nearby zone of a support
\* type when there is one, of a short signal the nearest of a resistance type,
\* and the nearest zone of any type only when no nearby zone matches.
C7_EntryZonePrefersMatchingType ==
    ReturnedSignal =>
        LET zs == TheSignal.liquidity_zones
            want == IF TheSignal.direction = "long" THEN SupportTypes
                    ELSE ResistanceTypes
        IN  TheSignal.entry_zone =
                (IF FirstOfType(zs, want) # None THEN FirstOfType(zs, want)
                 ELSE Some(zs[1]))

C9_PendingAndDirection ==
    ReturnedSignal =>
        /\ TheSignal.status = PENDING
        /\ TheSignal.direction \in {"long", "short"}
        /\ TheSignal.direction = "long" <=> TheSignal.trend_h4.direction = BULLISH
        /\ TheSignal.direction = "short" <=> TheSignal.trend_h4.direction = BEARISH
        /\ TheSignal.stop_loss = None
        /\ TheSignal.take_profit_1 = None
        /\ TheSignal.take_profit_2 = None
        /\ TheSignal.take_profit_3 = None
        /\ TheSignal.risk_reward = None

\* reached: a short signal
C9_Witness ==
    /\ ReturnedSignal
    /\ TheSignal.direction = "short"
    /\ TheSignal.trend_h4.direction = BEARISH

----------------------------------------------------------------------------
(* Properties of generate_signals *)

\* what the returned dict says about a pair
Reported(p) == IF p \in DOMAIN signals THEN Some(signals[p]) ELSE None

\* C5: from what generate_signals returns, a pair whose gates did not pass
\* can be told apart from a pair whose analysis raised an error.
C5_GateFailureDistinguishable ==
    batch_pc = "done" =>
        \A i \in 1..Len(log) : \A j \in 1..Len(log) :
            (log[i].message = "No signal - conditions not met" /\ log[j].level = "error")
            => Reported(log[i].pair) # Reported(log[j].pair)

----------------------------------------------------------------------------
(* risk/trailing_stop.py *)

\* Python truth of an Optional[float]: None and 0.0 are false
Truthy(o) == o # None /\ Val(o) # 0

\* mutant: the "only if the stop is still behind entry" test forgotten
_move_to_breakeven_unguarded(direction, entry_price, current_stop) ==
    Some(entry_price)

_move_to_breakeven(direction, entry_price, current_stop) ==
    IF direction = "long"
    THEN (IF current_stop < entry_price THEN Some(entry_price) ELSE None)
    ELSE (IF current_stop > entry_price THEN Some(entry_price) ELSE None)

_move_to_plus_1r(direction, entry_price, current_stop) ==
    LET stop_distance == Abs(entry_price - current_stop) IN
    IF direction = "long"
    THEN (LET plus_1r == entry_price + stop_distance
          IN  IF current_stop < plus_1r THEN Some(plus_1r) ELSE None)
    ELSE (LET plus_1r == entry_price - stop_distance
          IN  IF current_stop > plus_1r THEN Some(plus_1r) ELSE None)

\* ema21 * 0.998, ema21 * 1.002, current_price * (1 -/+ 0.015); the prices
\* drawn are multiples of 1000, so the products are whole
_trail_by_ema_or_swing(direction, price, current_stop, ema21) ==
    IF Truthy(ema21)
    THEN (IF direction = "long"
          THEN (LET new_stop == (Val(ema21) * 998) \div 1000
                IN  IF new_stop > current_stop /\ new_stop < price
                    THEN Some(new_stop) ELSE None)
          ELSE (LET new_stop == (Val(ema21) * 1002) \div 1000
                IN  IF new_stop < current_stop /\ new_stop > price
                    THEN Some(new_stop) ELSE None))
    ELSE (IF direction = "long"
          THEN (LET new_stop == (price * 985) \div 1000
                IN  IF new_stop > current_stop THEN Some(new_stop) ELSE None)
          ELSE (LET new_stop == (price * 1015) \div 1000
                IN  IF new_stop < current_stop THEN Some(new_stop) ELSE None))

\* the TrailingStopUpdate record of a change
_create_update(direction, price, old_stop, new_stop, reason) ==
    [direction |-> direction, current_price |-> price,
     old_stop |-> old_stop, new_stop |-> new_stop, reason |-> reason]

\* r_achieved in tenths: 0.9 is 9, 1.5 is 15, 2.5 is 25
should_update_stop(direction, entry_price, price, current_stop, r10, ema21) ==
    IF 9 <= r10 /\ r10 < 15
    THEN (LET new_stop == _move_to_breakeven(direction, entry_price, current_stop)
          IN  IF Truthy(new_stop) /\ Val(new_stop) # current_stop
              THEN Some(_create_update(direction, price, current_stop,
                                       Val(new_stop), "Moved to breakeven at +1R"))
              ELSE None)
    ELSE IF 15 <= r10 /\ r10 < 25
    THEN (LET new_stop == _move_to_plus_1r(direction, entry_price, current_stop)
          IN  IF Truthy(new_stop) /\ Val(new_stop) # current_stop
              THEN Some(_create_update(direction, price, current_stop,
                                       Val(new_stop), "Moved to +1R at +2R achieved"))
              ELSE None)
    ELSE IF r10 >= 25
    THEN (LET new_stop == _trail_by_ema_or_swing(direction, price,
                                                 current_stop, ema21)
          IN  IF Truthy(new_stop) /\ Val(new_stop) # current_stop
              THEN Some(_create_update(direction, price, current_stop,
                                       Val(new_stop), "Trailing stop by EMA21/swing"))
              ELSE None)
    ELSE None

----------------------------------------------------------------------------
(* One position whose stop is driven by should_update_stop *)

\* prices a check can see: entry is 100000, one step is 1%
PriceSteps == 4
EntryPrices == {100000}
StopDistances == {1000, 2000}
MarketPrices == {100000 + 1000 * k : k \in (0 - 1)..PriceSteps}
Ema21Values == {None, Some(0), Some(100000), Some(102000), Some(103000)}
RMultiples10 == {5, 9, 14, 15, 24, 25, 30}

\* the caller starts following a position: the stop on the losing side of entry
OpenPosition ==
    /\ position = None
    /\ \E direction \in {"long", "short"}, entry \in EntryPrices, d \in StopDistances :
         LET stop == IF direction = "long" THEN entry - d ELSE entry + d IN
         position' = Some([direction |-> direction, entry_price |-> entry,
                           initial_stop |-> stop, current_stop |-> stop])
    /\ last_check' = None
    /\ UNCHANGED <<sg_vars, batch_vars, sltp_vars, other_vars>>

\* one should_update_stop call; a returned new_stop becomes the next
\* current_stop
CheckStop ==
    /\ position # None
    /\ \E r10 \in RMultiples10, price \in MarketPrices, ema21 \in Ema21Values :
         LET p == Val(position)
             update == should_update_stop(p.direction, p.entry_price, price,
                                          p.current_stop, r10, ema21)
         IN  /\ last_check' = Some([r10 |-> r10, current_price |-> price,
                                    ema21 |-> ema21, current_stop |-> p.current_stop,
                                    update |-> update])
             /\ position' = IF update = None THEN position
                            ELSE Some([p EXCEPT !.current_stop = Val(update).new_stop])
    /\ UNCHANGED <<sg_vars, batch_vars, sltp_vars, other_vars>>

NextTrailing == OpenPosition \/ CheckStop

SpecTrailing == Init /\ [][NextTrailing]_vars

Better(direction, a, b) == IF direction = "long" THEN a > b ELSE a < b
AtLeast(direction, a, b) == IF direction = "long" THEN a >= b ELSE a <= b

\* C3: over the calls for one position, each new_stop fed back as the next
\* current_stop, the stop never moves against the trade; once it is at entry
\* or better no later call puts it back on the losing side of entry; and
\* every update returned has new_stop strictly better than old_stop, old_stop
\* being the stop the call was given.
C3_StopOnlyImproves ==
    [][(position # None /\ position' # None) =>
         LET p == Val(position)
             q == Val(position')
             c == Val(last_check')
         IN  /\ AtLeast(p.direction, q.current_stop, p.current_stop)
             /\ AtLeast(p.direction, p.current_stop, p.entry_price)
                  => AtLeast(p.direction, q.current_stop, p.entry_price)
             /\ c.update # None =>
                  /\ Val(c.update).old_stop = p.current_stop
                  /\ Val(c.update).new_stop = q.current_stop
                  /\ Better(p.direction, Val(c.update).new_stop, Val(c.update).old_stop)
             /\ c.update = None => q.current_stop = p.current_stop
      ]_vars

\* reached: a long whose stop is beyond entry is checked at R = 0.9 and
\* keeps its stop
C3_Witness ==
    /\ position # None /\ last_check # None
    /\ Val(position).direction = "long"
    /\ Val(position).current_stop > Val(position).entry_price
    /\ Val(last_check).r10 = 9
    /\ Val(last_check).update = None

InitialDistance(p) == Abs(p.entry_price - p.initial_stop)
Plus1R(p) == IF p.direction = "long" THEN p.entry_price + InitialDistance(p)
             ELSE p.entry_price - InitialDistance(p)

\* C4: a check with R < 0.9 yields no update; after a check with
\* 0.9 <= R < 1.5 the stop is at entry or better; after a check with
\* 1.5 <= R < 2.5 the stop is at entry plus (long) or minus (short) the
\* position's initial stop distance, or better; whatever the stop was before.
C4_StateMachine ==
    (position # None /\ last_check # None) =>
        LET p == Val(position)
            c == Val(last_check)
        IN  /\ c.r10 < 9 => c.update = None
            /\ (9 <= c.r10 /\ c.r10 < 15)
                 => AtLeast(p.direction, p.current_stop, p.entry_price)
            /\ (15 <= c.r10 /\ c.r10 < 25)
                 => AtLeast(p.direction, p.current_stop, Plus1R(p))

----------------------------------------------------------------------------
(* risk/sl_tp_calculator.py *)

\* config.PAIR_CONFIG[pair]['pip_value'], in price points: 0.0001 of a
\* five-decimal quote, 0.01 of a three-decimal (JPY) quote
pip_size(pair) == 10

MaxOf(S) == CHOOSE x \in S : \A y \in S : y <= x
MinOf(S) == CHOOSE x \in S : \A y \in S : x <= y

\* max(zones, key=price_level) and min(zones, key=price_level) return the
\* first of the zones that share the extreme level
FirstWithLevel(zs, level) ==
    zs[MinOf({i \in 1..Len(zs) : zs[i].price_level = level})]

\* liquidity_zones is Optional: None and the empty list are both false;
\* entry * (1 -/+ 0.015) is whole for the entries drawn
_calculate_stop_loss(pair, direction, entry_price, liquidity_zones) ==
    LET zs == IF liquidity_zones = None THEN <<>> ELSE Val(liquidity_zones)
        Below(z) == z.price_level < entry_price
        Above(z) == z.price_level > entry_price
        support_zones == SelectSeq(zs, Below)
        resistance_zones == SelectSeq(zs, Above)
        default_sl == IF direction = "long" THEN (entry_price * 985) \div 1000
                      ELSE (entry_price * 1015) \div 1000
    IN  IF zs # <<>> /\ direction = "long" /\ support_zones # <<>>
        THEN (LET nearest_support ==
                      FirstWithLevel(support_zones,
                          MaxOf({support_zones[i].price_level :
                                   i \in 1..Len(support_zones)}))
              IN  nearest_support.price_range[1] - 5 * pip_size(pair))
        ELSE IF zs # <<>> /\ direction # "long" /\ resistance_zones # <<>>
        THEN (LET nearest_resistance ==
                      FirstWithLevel(resistance_zones,
                          MinOf({resistance_zones[i].price_level :
                                   i \in 1..Len(resistance_zones)}))
              IN  nearest_resistance.price_range[2] + 5 * pip_size(pair))
        ELSE default_sl

\* TRUE when the placement is accepted, FALSE when RiskManagementError is
\* raised (the tight / wide checks only log; they divide by entry_price)
_validate_stop_loss(direction, entry_price, stop_loss) ==
    /\ ~(direction = "long" /\ stop_loss >= entry_price)
    /\ ~(direction = "short" /\ stop_loss <= entry_price)
    /\ entry_price # 0

\* mutant: the configured minimum R-multiple ignored for TP3
_calculate_take_profits_fixed_3r(direction, entry_price, stop_loss, stop_distance, min_r10) ==
    IF direction = "long"
    THEN <<entry_price + stop_distance, entry_price + stop_distance * 2,
           entry_price + stop_distance * 3>>
    ELSE <<entry_price - stop_distance, entry_price - stop_distance * 2,
           entry_price - stop_distance * 3>>

\* r3_multiple = max(3.0, self.min_r_multiple), in tenths
_calculate_take_profits(direction, entry_price, stop_loss, stop_distance, min_r10) ==
    LET r3_multiple10 == IF min_r10 > 30 THEN min_r10 ELSE 30 IN
    IF direction = "long"
    THEN <<entry_price + stop_distance, entry_price + stop_distance * 2,
           entry_price + (stop_distance * r3_multiple10) \div 10>>
    ELSE <<entry_price - stop_distance, entry_price - stop_distance * 2,
           entry_price - (stop_distance * r3_multiple10) \div 10>>

\* the stop calculate_sl_tp works with: "if custom_sl:" takes the custom stop
\* only when it is neither None nor 0.0
chosen_stop_loss(pair, direction, entry_price, liquidity_zones, custom_sl) ==
    IF Truthy(custom_sl) THEN Val(custom_sl)
    ELSE _calculate_stop_loss(pair, direction, entry_price, liquidity_zones)

\* the SLTPLevels returned, or the RiskManagementError every exception of the
\* body is turned into
calculate_sl_tp(pair, direction, entry_price, liquidity_zones, custom_sl, min_r10) ==
    LET stop_loss == chosen_stop_loss(pair, direction, entry_price,
                                      liquidity_zones, custom_sl)
        stop_distance == Abs(entry_price - stop_loss)
        tps == _calculate_take_profits(direction, entry_price, stop_loss,
                                       stop_distance, min_r10)
    IN  IF ~_validate_stop_loss(direction, entry_price, stop_loss)
        THEN [kind |-> "raised", error |-> "RiskManagementError", levels |-> None]
        ELSE [kind |-> "returned", error |-> "",
              levels |-> Some([pair |-> pair,
                               direction |-> direction,
                               entry_price |-> entry_price,
                               stop_loss |-> stop_loss,
                               stop_loss_points |-> stop_distance,
                               take_profit_1 |-> tps[1],
                               take_profit_2 |-> tps[2],
                               take_profit_3 |-> tps[3],
                               r_multiple_1 |-> (Abs(tps[1] - entry_price) * 10) \div stop_distance,
                               r_multiple_2 |-> (Abs(tps[2] - entry_price) * 10) \div stop_distance,
                               r_multiple_3 |-> (Abs(tps[3] - entry_price) * 10) \div stop_distance])]

----------------------------------------------------------------------------
(* Calls of calculate_sl_tp *)

\* most zones handed to one calculate_sl_tp call
MaxStopZones == 2

SLTPEntries == {100000}
SLTPZones == LiquidityZone({99500, 100200}, {0, 100}, EqualStrengths)
SLTPZoneLists == {None} \cup {Some(s) : s \in SeqsUpTo(SLTPZones, MaxStopZones)}
CustomStops == {None, Some(0), Some(99000), Some(100000), Some(101000)}
\* config.MIN_R_MULTIPLE in tenths; validate_trading_config wants it >= 1
MinRMultiples10 == {10, 30, 45}

\* the calculator keeps nothing between calls (min_r_multiple is read once
\* from the configuration), so a behaviour holds one call
CalculateSLTP ==
    /\ sltp_call = None
    /\ \E pair \in {"GBP/USD", "USD/JPY"}, direction \in {"long", "short"},
          entry \in SLTPEntries, zs \in SLTPZoneLists, custom_sl \in CustomStops,
          min_r10 \in MinRMultiples10 :
         sltp_call' = Some([pair |-> pair, direction |-> direction,
                            entry_price |-> entry, liquidity_zones |-> zs,
                            custom_sl |-> custom_sl, min_r10 |-> min_r10,
                            outcome |-> calculate_sl_tp(pair, direction, entry, zs,
                                                        custom_sl, min_r10)])
    /\ UNCHANGED <<sg_vars, batch_vars, trailing_vars, other_vars>>

NextSLTP == CalculateSLTP

SpecSLTP == Init /\ [][NextSLTP]_vars

\* the stop a call is given: its custom_sl when one is passed, otherwise the
\* zone-derived or percentage stop
GivenStop(c) ==
    IF c.custom_sl # None THEN Val(c.custom_sl)
    ELSE _calculate_stop_loss(c.pair, c.direction, c.entry_price, c.liquidity_zones)

RightSide(direction, entry, stop) ==
    IF direction = "long" THEN stop < entry ELSE stop > entry

\* C10: calculate_sl_tp returns levels only with the stop strictly below entry
\* for a long and strictly above for a short, whatever the source of the stop;
\* when the stop it is given is equal to entry or on the wrong side it raises
\* RiskManagementError, returns no levels and does not put another stop in
\* its place.
C10_StopValidated ==
    sltp_call # None =>
        LET c == Val(sltp_call) IN
        /\ c.outcome.kind = "returned" =>
             RightSide(c.direction, c.entry_price, Val(c.outcome.levels).stop_loss)
        /\ ~RightSide(c.direction, c.entry_price, GivenStop(c)) =>
             /\ c.outcome.kind = "raised"
             /\ c.outcome.error = "RiskManagementError"
             /\ c.outcome.levels = None

SLTPReturned == sltp_call # None /\ Val(sltp_call).outcome.kind = "returned"
SLTPLevels == Val(Val(sltp_call).outcome.levels)

\* C11: every SLTPLevels returned has |TP1-entry| < |TP2-entry| < |TP3-entry|;
\* the three take-profits are above entry for a long and below it for a short,
\* the stop on the other side; TP1 and TP2 are 1x and 2x the stop distance
\* away; the TP3 R-multiple is max(3.0, MIN_R_MULTIPLE), so never below the
\* configured minimum.
C11_TakeProfitLadder ==
    SLTPReturned =>
        LET l == SLTPLevels
            e == l.entry_price
            d == Abs(e - l.stop_loss)
            tp == <<l.take_profit_1, l.take_profit_2, l.take_profit_3>>
            min_r10 == Val(sltp_call).min_r10
        IN  /\ Abs(tp[1] - e) < Abs(tp[2] - e)
            /\ Abs(tp[2] - e) < Abs(tp[3] - e)
            /\ l.direction = "long" =>
                  (l.stop_loss < e /\ \A i \in 1..3 : tp[i] > e)
            /\ l.direction = "short" =>
                  (l.stop_loss > e /\ \A i \in 1..3 : tp[i] < e)
            /\ Abs(tp[1] - e) = d
            /\ Abs(tp[2] - e) = 2 * d
            /\ l.r_multiple_3 = (IF min_r10 > 30 THEN min_r10 ELSE 30)
            /\ Abs(tp[3] - e) * 10 = d * l.r_multiple_3
            /\ l.r_multiple_3 >= min_r10

\* a short placed above a resistance zone with a configured minimum of 4.5R
C11_Witness ==
    /\ SLTPReturned
    /\ SLTPLevels.direction = "short"
    /\ Val(sltp_call).custom_sl = None
    /\ Val(sltp_call).min_r10 = 45
    /\ SLTPLevels.stop_loss = 100350
    /\ SLTPLevels.take_profit_3 = 98425

\* the zones that oppose a trade: support types below entry for a long,
\* resistance types above entry for a short
OpposingZones(c) ==
    LET zs == IF c.liquidity_zones = None THEN <<>> ELSE Val(c.liquidity_zones)
    IN  IF c.direction = "long"
        THEN {zs[i] : i \in {j \in 1..Len(zs) :
                 zs[j].zone_type \in SupportTypes /\ zs[j].price_level < c.entry_price}}
        ELSE {zs[i] : i \in {j \in 1..Len(zs) :
                 zs[j].zone_type \in ResistanceTypes /\ zs[j].price_level > c.entry_price}}

NearestOpposing(c) ==
    {z \in OpposingZones(c) :
        \A y \in OpposingZones(c) :
            Abs(z.price_level - c.entry_price) <= Abs(y.price_level - c.entry_price)}

\* C12: without a custom stop, a long's stop is 5 pips below the lower bound
\* of the nearest support zone below entry and a short's 5 pips above the upper
\* bound of the nearest resistance zone above entry; only zones that oppose
\* the trade qualify, and with no qualifying zone the stop is entry less 1.5%
\* for a long and entry plus 1.5% for a short.
C12_StopBeyondOpposingZone ==
    (SLTPReturned /\ Val(sltp_call).custom_sl = None) =>
        LET c == Val(sltp_call)
            stop == SLTPLevels.stop_loss
        IN  IF OpposingZones(c) = {}
            THEN stop = (IF c.direction = "long" THEN (c.entry_price * 985) \div 1000
                         ELSE (c.entry_price * 1015) \div 1000)
            ELSE \E z \in NearestOpposing(c) :
                    stop = (IF c.direction = "long"
                            THEN z.price_range[1] - 5 * pip_size(c.pair)
                            ELSE z.price_range[2] + 5 * pip_size(c.pair))

----------------------------------------------------------------------------
(* risk/position_sizer.py *)

\* Amounts are exact: money in cents, risk percentage in tenths of a percent,
\* prices in price points, lots and units as fractions <<numerator,
\* denominator>> in lowest terms with a positive denominator.
RECURSIVE GCD(_, _)
GCD(a, b) == IF b = 0 THEN a ELSE GCD(b, a % b)

Frac(n, d) == LET g == GCD(n, d) IN <<n \div g, d \div g>>
FracMul(a, b) ==
    LET g1 == GCD(a[1], b[2])
        g2 == GCD(b[1], a[2])
    IN  <<(a[1] \div g1) * (b[1] \div g2), (a[2] \div g2) * (b[2] \div g1)>>
FracLess(a, b) == a[1] * b[2] < b[1] * a[2]
FracEq(a, b) == a[1] * b[2] = b[1] * a[2]

\* price points in one unit of price: a pip (10 points) is 0.0001 of a
\* USD-quoted pair and 0.01 of a JPY-quoted one
points_per_unit(pair) == IF quote_currency(pair) = "JPY" THEN 1000 ELSE 100000

\* config.ACCOUNT_BALANCE, RISK_PERCENTAGE, LEVERAGE as validate_trading_config
\* lets them through: balance > 0, 0 < risk <= 5, leverage >= 1
Configs ==
    [ACCOUNT_BALANCE : {100, 10000}, RISK_PERCENTAGE10 : {10, 50}, LEVERAGE : {1, 30}]

\* PositionSizer.__init__: "argument or config" takes the configured value
\* when the argument is None or 0
PositionSizer(account_balance, risk_percentage10, leverage, cfg) ==
    [account_balance |-> IF Truthy(account_balance) THEN Val(account_balance)
                         ELSE cfg.ACCOUNT_BALANCE,
     risk_percentage10 |-> IF Truthy(risk_percentage10) THEN Val(risk_percentage10)
                           ELSE cfg.RISK_PERCENTAGE10,
     leverage |-> IF Truthy(leverage) THEN Val(leverage) ELSE cfg.LEVERAGE]

\* 10.0 dollars a pip and lot, 9.16 for JPY pairs
pip_value_per_lot(pair) == IF quote_currency(pair) = "JPY" THEN 916 ELSE 1000

\* mutant: the leverage constraint left out
leverage_unconstrained(sizer, pair, entry_price, lots) == lots

\* max_position = balance * leverage / entry_price units; a larger position is
\* cut to it, and the lots follow (units / 100000)
leverage_constraint(sizer, pair, entry_price, lots) ==
    LET max_position == FracMul(Frac(sizer.account_balance * sizer.leverage, 1),
                                Frac(points_per_unit(pair), entry_price))
        max_lots == FracMul(max_position, Frac(1, 100000))
    IN  IF FracLess(max_lots, lots) THEN max_lots ELSE lots

calculate_position_size(sizer, pair, entry_price, stop_loss) ==
    IF entry_price <= 0 \/ stop_loss <= 0 \/ entry_price = stop_loss
    THEN [kind |-> "raised", error |-> "RiskManagementError", position |-> None]
    ELSE
      LET risk_amount == (sizer.account_balance * 100 * sizer.risk_percentage10) \div 1000
          stop_distance == Abs(entry_price - stop_loss)
          \* risk / (pips * pip value), pips = points / pip_size
          lots == Frac(risk_amount * pip_size(pair),
                       stop_distance * pip_value_per_lot(pair))
          position_size_lots == leverage_constraint(sizer, pair, entry_price, lots)
      IN  [kind |-> "returned", error |-> "",
           position |-> Some([pair |-> pair,
                              account_balance |-> sizer.account_balance,
                              risk_percentage10 |-> sizer.risk_percentage10,
                              risk_amount |-> risk_amount,
                              entry_price |-> entry_price,
                              stop_loss |-> stop_loss,
                              stop_distance_points |-> stop_distance,
                              position_size_lots |-> position_size_lots,
                              position_size_units |->
                                  FracMul(position_size_lots, Frac(100000, 1)),
                              pip_value |-> pip_value_per_lot(pair)])]

----------------------------------------------------------------------------
(* Calls of calculate_position_size *)

\* stops are drawn up to this many half-percent steps from entry
SizingStopSteps == 3

SizingEntries == {100000, 0}
SizingStops(entry) ==
    {0} \cup {entry + (entry \div 200) * k : k \in (0 - SizingStopSteps)..SizingStopSteps}
        \cup {entry - 10}

CalculatePositionSize ==
    /\ size_call = None
    /\ \E cfg \in Configs, account_balance \in {None, Some(0), Some(5000)},
          pair \in {"GBP/USD", "USD/JPY"} :
        \E entry \in SizingEntries : \E stop \in SizingStops(entry) :
          LET sizer == PositionSizer(account_balance, None, None, cfg) IN
          size_call' = Some([sizer |-> sizer, pair |-> pair, entry_price |-> entry,
                             stop_loss |-> stop,
                             outcome |-> calculate_position_size(sizer, pair, entry, stop)])
    /\ UNCHANGED <<core_vars, job_vars, fetch_vars, tg_vars, main_vars,
                   score_vars, trend_vars,
                   late_vars>>

NextSizing == CalculatePositionSize

SpecSizing == Init /\ [][NextSizing]_vars

SizeReturned == size_call # None /\ Val(size_call).outcome.kind = "returned"
PositionSize == Val(Val(size_call).outcome.position)

\* lots x stop_distance_pips x pip_value, against the risk amount
RiskOfPosition(ps) ==
    FracMul(FracMul(ps.position_size_lots,
                    Frac(ps.stop_distance_points, pip_size(ps.pair))),
            Frac(ps.pip_value, 1))

\* the position the leverage allows: balance x leverage / entry, in lots
LeverageLots(ps, leverage) ==
    FracMul(FracMul(Frac(ps.account_balance * leverage, 1),
                    Frac(points_per_unit(ps.pair), ps.entry_price)),
            Frac(1, 100000))

----------------------------------------------------------------------------
(* scheduler/job_scheduler.py: _run_signal_generation *)

\* validate_position_size with its default limits: 0.01 <= lots <= 100 and
\* risk_amount <= 5% of the balance
validate_position_size(sizer, ps) ==
    /\ ~FracLess(ps.position_size_lots, Frac(1, 100))
    /\ ~FracLess(Frac(100, 1), ps.position_size_lots)
    /\ ~(ps.risk_amount * 100 > sizer.account_balance * 100 * 5)

\* mutant: a failed position size let through
complete_signal_unsized(sizer, min_r10, signal) ==
    LET sltp_levels == calculate_sl_tp(signal.pair, signal.direction, signal.entry_price,
                                       Some(signal.liquidity_zones), None, min_r10)
    IN  IF sltp_levels.kind = "raised" THEN None
        ELSE Some([signal |-> [signal EXCEPT
                                 !.stop_loss = Some(Val(sltp_levels.levels).stop_loss)],
                   position |-> None,
                   sltp |-> Val(sltp_levels.levels)])

\* the try block of one loop iteration up to the stored entry: None when
\* calculate_position_size or calculate_sl_tp raised (the except clause logs and
\* continues), otherwise the updated signal with its position and levels
complete_signal(sizer, min_r10, signal) ==
    LET sized == calculate_position_size(sizer, signal.pair, signal.entry_price,
                                         (signal.entry_price * 985) \div 1000)
        sltp_levels == calculate_sl_tp(signal.pair, signal.direction, signal.entry_price,
                                       Some(signal.liquidity_zones), None, min_r10)
    IN  IF sized.kind = "raised" \/ sltp_levels.kind = "raised" THEN None
        ELSE LET l == Val(sltp_levels.levels) IN
             Some([signal |-> [signal EXCEPT !.stop_loss = Some(l.stop_loss),
                                             !.take_profit_1 = Some(l.take_profit_1),
                                             !.take_profit_2 = Some(l.take_profit_2),
                                             !.take_profit_3 = Some(l.take_profit_3),
                                             !.risk_reward = Some(l.r_multiple_3)],
                   position |-> Val(sized.position),
                   sltp |-> l])

----------------------------------------------------------------------------
(* Runs of _run_signal_generation *)

\* most signals generate_signals hands to one run
MaxJobSignals == 2

\* the analysis behind the signals of a run
JobFundamental(pair, h4) ==
    [pair |-> pair,
     direction |-> IF h4 = BULLISH THEN USD_WEAKER ELSE USD_STRONGER,
     strength |-> 3]

\* signals as generate_signal builds them; a negative M15 close passes the
\* nearby-zone test and gives a signal with a negative entry price
JobSignalsOf(pair) ==
    {TradingSignal(pair, JobFundamental(pair, h4),
                   analyze_trend(pair, "H4", IF h4 = BULLISH THEN 1 ELSE 0 - 1,
                                 IF h4 = BULLISH THEN 1 ELSE 0 - 1,
                                 IF h4 = BULLISH THEN 1 ELSE 0 - 1),
                   analyze_trend(pair, "H1", IF h4 = BULLISH THEN 1 ELSE 0 - 1,
                                 IF h4 = BULLISH THEN 1 ELSE 0 - 1,
                                 IF h4 = BULLISH THEN 1 ELSE 0 - 1),
                   get_zones_near_price(detect_all_zones(found), price,
                                        NearbyDistancePct10),
                   price)
       : <<h4, found, price>> \in {BULLISH, BEARISH} \X (BatchFoundLists \ {<<>>})
                                 \X {100000, 0 - 100000}}

JobPairLists == {s \in SeqsUpTo({"GBP/USD", "EUR/USD"}, MaxJobSignals) : Distinct(s)}

\* from "signals = self.signal_generator.generate_signals(...)" on: an empty
\* dict returns at once
RunSignalGeneration ==
    /\ job_pc = "idle"
    /\ \E cfg \in Configs, enabled \in BOOLEAN, pairs \in JobPairLists :
        \E sigs \in [{pairs[i] : i \in 1..Len(pairs)} ->
                        UNION {JobSignalsOf(p) : p \in {"GBP/USD", "EUR/USD"}}] :
          /\ \A p \in DOMAIN sigs : sigs[p].pair = p /\ sigs[p].liquidity_zones # <<>>
          /\ job_config' = Some([cfg |-> cfg, MIN_R_MULTIPLE10 |-> 30,
                                  telegram_enabled |-> enabled])
          /\ job_signals' = sigs
          /\ job_todo' = pairs
          /\ job_pc' = IF pairs = <<>> THEN "done" ELSE "loop"
    /\ UNCHANGED <<active_signals, alerts>>
    /\ UNCHANGED <<core_vars, sizing_vars, fetch_vars, tg_vars, main_vars,
                   score_vars, trend_vars,
                   late_vars>>

\* one iteration of "for pair_name, signal in signals.items()": sizing, SL/TP,
\* the update of the signal, the stored entry, the alert (which may itself
\* raise into the same except clause)
CompleteSignal ==
    /\ job_pc = "loop"
    /\ job_todo # <<>>
    /\ LET pair_name == Head(job_todo)
           c == Val(job_config)
           done == complete_signal(PositionSizer(None, None, None, c.cfg),
                                   c.MIN_R_MULTIPLE10, job_signals[pair_name])
       IN  IF done = None
           THEN UNCHANGED <<job_signals, active_signals, alerts>>
           ELSE /\ job_signals' = [job_signals EXCEPT ![pair_name] = Val(done).signal]
                /\ active_signals' =
                       [p \in DOMAIN active_signals \cup {pair_name} |->
                          IF p = pair_name THEN Val(done) ELSE active_signals[p]]
                /\ IF c.telegram_enabled
                   THEN \E sent \in {"sent", "raised"} :
                          alerts' = Append(alerts,
                                           [signal |-> Val(done).signal,
                                            position |-> Val(done).position,
                                            outcome |-> sent])
                   ELSE UNCHANGED alerts
    /\ job_todo' = Tail(job_todo)
    /\ UNCHANGED <<job_pc, job_config>>
    /\ UNCHANGED <<core_vars, sizing_vars, fetch_vars, tg_vars, main_vars,
                   score_vars, trend_vars,
                   late_vars>>

JobReturn ==
    /\ job_pc = "loop"
    /\ job_todo = <<>>
    /\ job_pc' = "done"
    /\ UNCHANGED <<job_config, job_todo, job_signals, active_signals, alerts>>
    /\ UNCHANGED <<core_vars, sizing_vars, fetch_vars, tg_vars, main_vars,
                   score_vars, trend_vars,
                   late_vars>>

NextJob == RunSignalGeneration \/ CompleteSignal \/ JobReturn

SpecJob == Init /\ [][NextJob]_vars

RiskFields(sig) ==
    <<sig.stop_loss, sig.take_profit_1, sig.take_profit_2, sig.take_profit_3,
      sig.risk_reward>>
AllSet(sig) == \A i \in 1..5 : RiskFields(sig)[i] # None
NoneSet(sig) == \A i \in 1..5 : RiskFields(sig)[i] = None

JobSizer == PositionSizer(None, None, None, Val(job_config).cfg)

\* position sizing or the SL/TP calculation fails for the signal
EnrichmentFails(sig) ==
    \/ calculate_position_size(JobSizer, sig.pair, sig.entry_price,
                               (sig.entry_price * 985) \div 1000).kind = "raised"
    \/ calculate_sl_tp(sig.pair, sig.direction, sig.entry_price,
                       Some(sig.liquidity_zones), None,
                       Val(job_config).MIN_R_MULTIPLE10).kind = "raised"

Alerted(p) == \E i \in 1..Len(alerts) : alerts[i].signal.pair = p
Handled(p) == p \in DOMAIN job_signals /\ p \notin Range(job_todo)

\* C14: in the signal-generation stage a signal whose position sizing or SL/TP
\* calculation fails gets none of stop_loss, take_profit_1..3, risk_reward, is
\* not stored as a complete signal and has no READY TO TRADE alert; a stored
\* complete signal has all of these fields set.
C14_EnrichmentAllOrNothing ==
    \A p \in DOMAIN job_signals :
        /\ AllSet(job_signals[p]) \/ NoneSet(job_signals[p])
        /\ (Handled(p) /\ EnrichmentFails(job_signals[p])) =>
              /\ NoneSet(job_signals[p])
              /\ p \notin DOMAIN active_signals
              /\ ~Alerted(p)
        /\ p \in DOMAIN active_signals =>
              /\ active_signals[p].signal = job_signals[p]
              /\ AllSet(active_signals[p].signal)
        /\ Alerted(p) => p \in DOMAIN active_signals

\* a run in which one signal failed enrichment and another was completed and
\* alerted
C14_Witness ==
    /\ job_pc = "done"
    /\ \E p, q \in DOMAIN job_signals :
          /\ EnrichmentFails(job_signals[p])
          /\ NoneSet(job_signals[p])
          /\ q \in DOMAIN active_signals
          /\ AllSet(job_signals[q])
          /\ Alerted(q)

\* C15: every position size stored in a complete signal or sent in a READY TO
\* TRADE alert passes validate_position_size: lots within [0.01, 100] and risk
\* amount at most 5% of the balance.
C15_PositionSizeValidated ==
    /\ \A p \in DOMAIN active_signals :
          validate_position_size(JobSizer, active_signals[p].position)
    /\ \A i \in 1..Len(alerts) :
          validate_position_size(JobSizer, alerts[i].position)

----------------------------------------------------------------------------
(* core/exceptions.py, data/market_data.py: fetch_data and the trend
   analysis built on it *)

\* Every class of core/exceptions.py derives directly from
\* PacifiqueTradeError, so isinstance(e, RETRYABLE_EXCEPTIONS) is membership
\* of type(e) in the tuple.
RETRYABLE_EXCEPTIONS == {"APIError", "MarketDataError", "CacheError", "TimeoutError"}
NON_RETRYABLE_EXCEPTIONS ==
    {"ConfigurationError", "DataValidationError", "InsufficientDataError"}

\* An exception is its class and the cause named by its message.
Exc(type, cause) == [kind |-> "raised", type |-> type, cause |-> cause, bars |-> 0]
Frame(bars) == [kind |-> "returned", type |-> "", cause |-> "", bars |-> bars]

TimeFrame == {"15m", "30m", "1h", "4h", "1d", "1w"}
TIMEFRAME_MAP == {"15m", "30m", "1h", "4h", "1d"}

\* config.MIN_BARS_M15 / MIN_BARS_H1 / MIN_BARS_H4 come from the environment
MinBarsConfigs == [MIN_BARS_M15 : {3, 10}, MIN_BARS_H1 : {20}, MIN_BARS_H4 : {20, 52}]

min_bars(cfg, timeframe) ==
    CASE timeframe = "15m" -> cfg.MIN_BARS_M15
      [] timeframe = "30m" -> cfg.MIN_BARS_M15
      [] timeframe = "1h" -> cfg.MIN_BARS_H1
      [] timeframe = "4h" -> cfg.MIN_BARS_H4
      [] OTHER -> 50

\* _validate_data: raises InsufficientDataError below the minimum; the NaN
\* and gap checks only log.
_validate_data(cfg, bars, timeframe) ==
    IF bars < min_bars(cfg, timeframe)
    THEN Exc("InsufficientDataError", "insufficient")
    ELSE Frame(bars)

\* What ticker_obj.history does: it raises a network error or a timeout of
\* the HTTP library, or returns a frame of some number of bars.
MaxBars == 52
HistoryOutcomes ==
    {Exc("ConnectionError", "network"), Exc("ReadTimeout", "network")}
        \cup {Frame(n) : n \in 0..MaxBars}

\* fetch_data: the whole body after the timeframe lookup runs inside
\* try: ... except Exception as e: raise MarketDataError(message=str(e)).
fetch_data(cfg, pair, timeframe, history) ==
    IF timeframe \notin TIMEFRAME_MAP
    THEN Exc("MarketDataError", "unsupported")
    ELSE LET body ==
                 IF history.kind = "raised" THEN history
                 ELSE IF history.bars = 0 THEN Exc("MarketDataError", "empty")
                 ELSE _validate_data(cfg, history.bars, timeframe)
         IN  IF body.kind = "raised"
             THEN Exc("MarketDataError", body.cause)
             ELSE body

\* analyze_trend around the fetch: every exception of the body is re-raised
\* as TrendDetectionError(reason=str(e)).
analyze_trend_fetched(cfg, pair, timeframe, history) ==
    LET df == fetch_data(cfg, pair, timeframe, history)
    IN  IF df.kind = "raised"
        THEN Exc("TrendDetectionError", df.cause)
        ELSE df

FetchData ==
    /\ fetch_call = None
    /\ \E cfg \in MinBarsConfigs, pair \in CurrencyPair, timeframe \in TimeFrame,
          history \in HistoryOutcomes :
        fetch_call' = Some([op |-> "fetch_data", cfg |-> cfg, pair |-> pair,
                            timeframe |-> timeframe, history |-> history,
                            outcome |-> fetch_data(cfg, pair, timeframe, history)])
    /\ UNCHANGED <<core_vars, sizing_vars, job_vars, tg_vars, main_vars,
                   score_vars, trend_vars,
                   late_vars>>

AnalyzeTrendFetched ==
    /\ fetch_call = None
    /\ \E cfg \in MinBarsConfigs, pair \in CurrencyPair, timeframe \in TimeFrame,
          history \in HistoryOutcomes :
        fetch_call' = Some([op |-> "analyze_trend", cfg |-> cfg, pair |-> pair,
                            timeframe |-> timeframe, history |-> history,
                            outcome |-> analyze_trend_fetched(cfg, pair, timeframe,
                                                              history)])
    /\ UNCHANGED <<core_vars, sizing_vars, job_vars, tg_vars, main_vars,
                   score_vars, trend_vars,
                   late_vars>>

NextFetch == FetchData \/ AnalyzeTrendFetched

SpecFetch == Init /\ [][NextFetch]_vars

\* The candle source returned a non-empty frame shorter than the minimum
TooFewBars(c) ==
    /\ c.timeframe \in TIMEFRAME_MAP
    /\ c.history.kind = "returned"
    /\ c.history.bars > 0
    /\ c.history.bars < min_bars(c.cfg, c.timeframe)

\* C16: when the candle source returns fewer bars than the configured minimum
\* for the timeframe, the fetch fails with an error that is an
\* InsufficientDataError (so the caller can tell it from a network failure by
\* its type) and that is not an instance of any RETRYABLE_EXCEPTIONS type;
\* the trend analysis built on the fetch fails as well.
C16_InsufficientDataDistinguishable ==
    fetch_call # None =>
        LET c == Val(fetch_call) IN
        TooFewBars(c) =>
            /\ c.outcome.kind = "raised"
            /\ c.outcome.type \notin RETRYABLE_EXCEPTIONS
            /\ c.op = "fetch_data" => c.outcome.type = "InsufficientDataError"

----------------------------------------------------------------------------
(* notification/telegram_bot.py: TelegramNotifier.send_message *)

\* What one await self.bot.send_message(...) can do: succeed, or raise
\* telegram.error.NetworkError, telegram.error.TimedOut, another
\* telegram.error.TelegramError, or an exception of another library.
SendOutcomes == {"ok", "NetworkError", "TimedOut", "TelegramError", "Exception"}

MaxRetryCount == 4
RetryCounts == 0..MaxRetryCount

RECURSIVE Pow2(_)
Pow2(n) == IF n <= 0 THEN 1 ELSE 2 * Pow2(n - 1)

TgEvent(ev, attempt, outcome, seconds) ==
    [ev |-> ev, attempt |-> attempt, outcome |-> outcome, seconds |-> seconds]

\* A variant of the handlers that backs off after the last attempt too
after_attempt_always_sleeps(retry_count, attempt, outcome) ==
    CASE outcome = "ok" -> [next |-> "done", result |-> Returned(Some(TRUE))]
      [] outcome \in {"NetworkError", "TimedOut"} ->
            [next |-> "sleep", result |-> Pending]
      [] outcome = "TelegramError" ->
            [next |-> "done", result |-> Raised("TelegramError")]
      [] OTHER -> [next |-> "done", result |-> Returned(Some(FALSE))]

\* The try/except of one loop iteration, and the loop's exit: what follows
\* attempt number `attempt` (from 0) when it ended with `outcome`.
after_attempt(retry_count, attempt, outcome) ==
    CASE outcome = "ok" -> [next |-> "done", result |-> Returned(Some(TRUE))]
      [] outcome \in {"NetworkError", "TimedOut"} ->
            IF attempt < retry_count - 1
            THEN [next |-> "sleep", result |-> Pending]
            ELSE [next |-> "done", result |-> Returned(Some(FALSE))]
      [] outcome = "TelegramError" ->
            [next |-> "done", result |-> Raised("TelegramError")]
      [] OTHER -> [next |-> "done", result |-> Returned(Some(FALSE))]

\* send_message up to the first await
SendMessage ==
    /\ tg_pc = "idle"
    /\ \E enabled \in BOOLEAN, retry_count \in RetryCounts :
        /\ tg_retry_count' = retry_count
        /\ tg_attempt' = 0
        /\ tg_trace' = <<TgEvent("call", 0, IF enabled THEN "enabled" ELSE "disabled", 0)>>
        /\ IF enabled /\ retry_count > 0
           THEN tg_pc' = "attempt" /\ tg_result' = Pending
           ELSE tg_pc' = "done" /\ tg_result' = Returned(Some(FALSE))
    /\ UNCHANGED <<core_vars, sizing_vars, job_vars, fetch_vars, main_vars,
                   score_vars, trend_vars,
                   late_vars>>

\* await self.bot.send_message(...) and the handler that follows it
BotSendMessage ==
    /\ tg_pc = "attempt"
    /\ \E outcome \in SendOutcomes :
        LET after == after_attempt(tg_retry_count, tg_attempt, outcome) IN
        /\ tg_trace' = Append(tg_trace, TgEvent("send", tg_attempt, outcome, 0))
        /\ tg_pc' = after.next
        /\ tg_result' = after.result
    /\ UNCHANGED <<tg_retry_count, tg_attempt>>
    /\ UNCHANGED <<core_vars, sizing_vars, job_vars, fetch_vars, main_vars,
                   score_vars, trend_vars,
                   late_vars>>

\* await asyncio.sleep(2 ** attempt), then the next iteration of the loop
BackoffSleep ==
    /\ tg_pc = "sleep"
    /\ tg_trace' = Append(tg_trace, TgEvent("sleep", tg_attempt, "", Pow2(tg_attempt)))
    /\ tg_attempt' = tg_attempt + 1
    /\ IF tg_attempt + 1 < tg_retry_count
       THEN tg_pc' = "attempt" /\ tg_result' = Pending
       ELSE tg_pc' = "done" /\ tg_result' = Returned(Some(FALSE))
    /\ UNCHANGED tg_retry_count
    /\ UNCHANGED <<core_vars, sizing_vars, job_vars, fetch_vars, main_vars,
                   score_vars, trend_vars,
                   late_vars>>

NextTelegram == SendMessage \/ BotSendMessage \/ BackoffSleep

SpecTelegram == Init /\ [][NextTelegram]_vars

TgSends == [i \in 1..(Len(tg_trace) - 1) |-> tg_trace[i + 1]]
TgAttempts == {i \in 1..Len(TgSends) : TgSends[i].ev = "send"}
TgDone == tg_pc = "done"
TgReturned(b) == tg_result.kind = "returned" /\ Val(tg_result.value) = b
NetworkOrTimeout == {"NetworkError", "TimedOut"}

\* C17: send_message makes at most retry_count send attempts; an attempt is
\* followed by another only after a network error or timeout, with a sleep of
\* 2^attempt seconds in between and none after the last attempt; it returns
\* True on the first successful attempt and False once the attempts are
\* exhausted; any other Telegram error is raised on its first occurrence with
\* no further attempt.
C17_SendMessageRetries ==
    /\ Cardinality(TgAttempts) <= tg_retry_count
    /\ \A i \in 1..Len(TgSends) :
        LET e == TgSends[i] IN
        /\ e.ev = "send" /\ i < Len(TgSends) =>
              /\ e.outcome \in NetworkOrTimeout
              /\ TgSends[i + 1].ev = "sleep"
              /\ TgSends[i + 1].seconds = Pow2(e.attempt)
        /\ e.ev = "sleep" =>
              /\ i > 1 /\ TgSends[i - 1].ev = "send"
              /\ TgDone => i < Len(TgSends)
        /\ e.ev = "send" /\ e.outcome = "ok" => TgDone /\ TgReturned(TRUE)
        /\ e.ev = "send" /\ e.outcome = "TelegramError" =>
              TgDone /\ tg_result.kind = "raised"
    /\ TgDone /\ TgReturned(TRUE) =>
          Len(TgSends) > 0 /\ TgSends[Len(TgSends)].outcome = "ok"
    /\ /\ Cardinality(TgAttempts) = tg_retry_count
       /\ Len(tg_trace) > 0
       /\ \A i \in TgAttempts : TgSends[i].outcome \in NetworkOrTimeout
       => (TgDone => TgReturned(FALSE))
    /\ tg_pc = "attempt" => Cardinality(TgAttempts) < tg_retry_count

\* Three attempts: two network failures with sleeps of 1 and 2 seconds, then
\* a third failure that ends the call with False and no sleep.
C17_Witness ==
    /\ TgDone /\ TgReturned(FALSE)
    /\ tg_retry_count = 3
    /\ Cardinality(TgAttempts) = 3
    /\ Len(TgSends) = 5
    /\ TgSends[2].seconds = 1 /\ TgSends[4].seconds = 2
    /\ TgSends[5].outcome = "TimedOut"

----------------------------------------------------------------------------
(* core/config.py validation and main.py: main *)

\* The settings the validators read. RISK_PERCENTAGE and MIN_R_MULTIPLE are
\* in tenths.
MainConfigs ==
    [ACCOUNT_BALANCE : {-1, 0, 10000},
     RISK_PERCENTAGE10 : {-10, 0, 10, 50, 51},
     LEVERAGE : {0, 1},
     MIN_R_MULTIPLE10 : {5, 30},
     SL_PARTS : {<<33, 33, 34>>, <<33, 33, 33>>, <<50, 30, 20>>, <<40, 40, 40>>},
     TELEGRAM : {"disabled", "configured", "no_token"},
     REDIS_PORT : {None, Some(6379), Some(0)}]

\* validate_telegram: "ok" or the exception class it raises
validate_telegram(cfg) ==
    IF cfg.TELEGRAM = "no_token" THEN "ValueError" ELSE "ok"

\* A variant of validate_trading_config without the split check
validate_trading_config_no_split_check(cfg) ==
    IF cfg.ACCOUNT_BALANCE <= 0 THEN "ValueError"
    ELSE IF ~(0 < cfg.RISK_PERCENTAGE10 /\ cfg.RISK_PERCENTAGE10 <= 50) THEN "ValueError"
    ELSE IF cfg.LEVERAGE < 1 THEN "ValueError"
    ELSE IF cfg.MIN_R_MULTIPLE10 < 10 THEN "ValueError"
    ELSE "ok"

validate_trading_config(cfg) ==
    IF cfg.ACCOUNT_BALANCE <= 0 THEN "ValueError"
    ELSE IF ~(0 < cfg.RISK_PERCENTAGE10 /\ cfg.RISK_PERCENTAGE10 <= 50) THEN "ValueError"
    ELSE IF cfg.LEVERAGE < 1 THEN "ValueError"
    ELSE IF cfg.MIN_R_MULTIPLE10 < 10 THEN "ValueError"
    ELSE IF cfg.SL_PARTS[1] + cfg.SL_PARTS[2] + cfg.SL_PARTS[3] # 100 THEN "ValueError"
    ELSE "ok"

validate_redis(cfg) ==
    IF cfg.REDIS_PORT # None /\ (Val(cfg.REDIS_PORT) < 1 \/ Val(cfg.REDIS_PORT) > 65535)
    THEN "ValueError" ELSE "ok"

validate_all(cfg) ==
    IF validate_telegram(cfg) # "ok" THEN validate_telegram(cfg)
    ELSE IF validate_trading_config(cfg) # "ok" THEN validate_trading_config(cfg)
    ELSE validate_redis(cfg)

\* validate_config_only: returns 0, or 1 on ConfigurationError; any other
\* exception leaves the function.
validate_config_only(cfg) ==
    LET v == validate_all(cfg)
    IN  IF v = "ok" THEN [exit |-> Some(0), raised |-> "ok"]
        ELSE IF v = "ConfigurationError" THEN [exit |-> Some(1), raised |-> "ok"]
        ELSE [exit |-> None, raised |-> v]

MainModes == {"validate_config", "backtest", "manual", "schedule"}

\* What happens inside run_scheduled_mode once it is entered
SchedulerOutcomes == {"construct_raises", "start_raises", "KeyboardInterrupt"}

\* run_scheduled_mode: the calls it makes and the exception that leaves it
run_scheduled_mode(outcome) ==
    CASE outcome = "construct_raises" ->
            [events |-> <<"JobScheduler()">>, raised |-> "Exception"]
      [] outcome = "start_raises" ->
            [events |-> <<"JobScheduler()", "scheduler.start()">>,
             raised |-> "Exception"]
      [] OTHER ->
            [events |-> <<"JobScheduler()", "scheduler.start()", "scheduler.stop()">>,
             raised |-> "ok"]

\* The except clauses of main
exit_code_of(raised) == IF raised = "KeyboardInterrupt" THEN 0 ELSE 1

\* main: the calls made, in order, and the exit code
main(cfg, mode, outcome) ==
    IF mode = "validate_config"
    THEN LET r == validate_config_only(cfg)
         IN  [events |-> <<"validate_all">>,
              exit_code |-> IF r.exit # None THEN Val(r.exit)
                            ELSE exit_code_of(r.raised)]
    ELSE LET v == validate_all(cfg)
         IN  IF v # "ok"
             THEN [events |-> <<"validate_all">>, exit_code |-> exit_code_of(v)]
             ELSE IF mode = "schedule"
             THEN LET s == run_scheduled_mode(outcome)
                  IN  [events |-> <<"validate_all">> \o s.events,
                       exit_code |-> IF s.raised = "ok" THEN 0
                                     ELSE exit_code_of(s.raised)]
             ELSE [events |-> <<"validate_all", mode>>, exit_code |-> 0]

Main ==
    /\ main_call = None
    /\ \E cfg \in MainConfigs, mode \in MainModes, outcome \in SchedulerOutcomes :
        main_call' = Some([cfg |-> cfg, mode |-> mode, outcome |-> outcome,
                           run |-> main(cfg, mode, outcome)])
    /\ UNCHANGED <<core_vars, sizing_vars, job_vars, fetch_vars, tg_vars,
                   score_vars, trend_vars,
                   late_vars>>

NextMain == Main

SpecMain == Init /\ [][NextMain]_vars

InvalidTradingConfig(cfg) ==
    \/ cfg.SL_PARTS[1] + cfg.SL_PARTS[2] + cfg.SL_PARTS[3] # 100
    \/ cfg.RISK_PERCENTAGE10 <= 0
    \/ cfg.RISK_PERCENTAGE10 > 50
    \/ cfg.ACCOUNT_BALANCE <= 0

CountOf(s, x) == Cardinality({i \in 1..Len(s) : s[i] = x})

\* C18: when the position splits do not sum to 100, or RISK_PERCENTAGE is
\* outside (0, 5], or the balance is not positive, main() returns a non-zero
\* exit code, the scheduler is neither constructed nor started, and
\* validate_all is called exactly once.
C18_InvalidConfigIsFatal ==
    main_call # None =>
        LET c == Val(main_call) IN
        InvalidTradingConfig(c.cfg) =>
            /\ c.run.exit_code # 0
            /\ CountOf(c.run.events, "JobScheduler()") = 0
            /\ CountOf(c.run.events, "scheduler.start()") = 0
            /\ CountOf(c.run.events, "validate_all") = 1

\* Scheduled mode with splits 33/33/33 and everything else valid
C18_Witness ==
    /\ main_call # None
    /\ Val(main_call).mode = "schedule"
    /\ Val(main_call).cfg.SL_PARTS = <<33, 33, 33>>
    /\ Val(main_call).cfg.ACCOUNT_BALANCE = 10000
    /\ Val(main_call).cfg.RISK_PERCENTAGE10 = 10
    /\ Val(main_call).cfg.LEVERAGE = 1
    /\ Val(main_call).cfg.MIN_R_MULTIPLE10 = 30
    /\ Val(main_call).cfg.TELEGRAM = "disabled"
    /\ Val(main_call).cfg.REDIS_PORT = None
    /\ Val(main_call).run.exit_code = 1
    /\ Val(main_call).run.events = <<"validate_all">>

----------------------------------------------------------------------------
(* analysis/fundamental.py: currency scoring from the events *)

base_currency(pair) ==
    CASE pair = "GBP/USD" -> "GBP"
      [] pair = "EUR/USD" -> "EUR"
      [] OTHER -> "USD"

\* The actual / forecast field of an EconomicEvent: None, or a string that
\* is empty, not a number, or a number (kept in tenths), possibly with a
\* percent sign.
NoValue == [kind |-> "none", n |-> 0]
EmptyString == [kind |-> "empty", n |-> 0]
TextString == [kind |-> "text", n |-> 0]
NumberString(n) == [kind |-> "number", n |-> n]
PercentString(n) == [kind |-> "percent", n |-> n]

\* not event.forecast / not event.actual
IsFalsy(value_str) == value_str.kind \in {"none", "empty"}

\* _parse_economic_value: the suffixes are removed and float() is applied;
\* None when that fails
_parse_economic_value(value_str) ==
    IF value_str.kind \in {"number", "percent"} THEN Some(value_str.n) ELSE None

\* _is_higher_better by keyword of the upper-cased event name
_is_higher_better(event_name) ==
    CASE event_name = "GDP" -> TRUE
      [] event_name = "Jobless Claims" -> FALSE
      [] event_name = "CPI" -> FALSE
      [] OTHER -> TRUE

EconomicEvent(currency, event_name, actual, forecast) ==
    [currency |-> currency, event_name |-> event_name,
     actual |-> actual, forecast |-> forecast]

Clamp10(score10) ==
    IF score10 > 100 THEN 100 ELSE IF score10 < -100 THEN -100 ELSE score10

\* A variant that reads a missing or unparseable value as 0
event_contribution_missing_as_zero(event) ==
    LET actual == _parse_economic_value(event.actual)
        forecast == _parse_economic_value(event.forecast)
        a == IF actual = None THEN 0 ELSE Val(actual)
        f == IF forecast = None THEN 0 ELSE Val(forecast)
    IN  (IF _is_higher_better(event.event_name) THEN a - f ELSE f - a) * 3

\* The contribution of one event of the currency, in tenths: 0 when the
\* event is skipped, else +-(actual - forecast) * 3.0
event_contribution(event) ==
    IF IsFalsy(event.forecast) \/ IsFalsy(event.actual) THEN 0
    ELSE LET actual == _parse_economic_value(event.actual)
             forecast == _parse_economic_value(event.forecast)
         IN  IF actual = None \/ forecast = None THEN 0
             ELSE LET surprise == Val(actual) - Val(forecast)
                  IN  (IF _is_higher_better(event.event_name)
                       THEN surprise ELSE 0 - surprise) * 3

RECURSIVE SumContributions(_, _)
SumContributions(currency, events) ==
    IF events = <<>> THEN 0
    ELSE (IF Head(events).currency = currency
          THEN event_contribution(Head(events)) ELSE 0)
         + SumContributions(currency, Tail(events))

\* _calculate_currency_score, in tenths
_calculate_currency_score(currency, events) ==
    Clamp10(SumContributions(currency, events))

\* _analyze_pair from the events
_analyze_pair_events(pair, events) ==
    _analyze_pair(pair,
                  _calculate_currency_score(base_currency(pair), events),
                  _calculate_currency_score(quote_currency(pair), events),
                  Len(events))

\* analyze_today for one pair whose relevant news are `events`
analyze_today_events(pair, events) ==
    IF events = <<>> THEN None ELSE _analyze_pair_events(pair, events)

MaxScoreEvents == 2

ScoredEvents ==
    {EconomicEvent(c, name, NumberString(v[1]), NumberString(v[2])) :
        c \in {"GBP", "USD"}, name \in {"GDP", "Jobless Claims"},
        v \in {<<20, 15>>, <<10, 22>>}}

\* Events with actual equal to forecast, and events lacking a usable value
UnscoredEvents ==
    {EconomicEvent(c, "GDP", v[1], v[2]) :
        c \in {"GBP", "USD"},
        v \in {<<PercentString(20), PercentString(20)>>,
               <<NoValue, NumberString(20)>>,
               <<NumberString(20), NoValue>>,
               <<EmptyString, NumberString(20)>>,
               <<TextString, NumberString(20)>>,
               <<NumberString(20), TextString>>}}

InsertAt(s, i, e) == SubSeq(s, 1, i - 1) \o <<e>> \o SubSeq(s, i, Len(s))

ScoreRun(pair, events) ==
    [events |-> events,
     base_score |-> _calculate_currency_score(base_currency(pair), events),
     quote_score |-> _calculate_currency_score(quote_currency(pair), events),
     pair_signal |-> _analyze_pair_events(pair, events),
     today_signal |-> analyze_today_events(pair, events)]

\* The analysis of a list of scored events
AnalyzeEvents ==
    /\ score_call = None
    /\ \E pair \in {"GBP/USD", "USD/JPY"},
          events \in SeqsUpTo(ScoredEvents, MaxScoreEvents) :
        score_call' = Some([pair |-> pair, added |-> 0,
                            first |-> ScoreRun(pair, events),
                            latest |-> ScoreRun(pair, events)])
    /\ UNCHANGED <<core_vars, sizing_vars, job_vars, fetch_vars, tg_vars,
                   main_vars, trend_vars,
                   late_vars>>

\* The analysis of the same list with one more event that is unscored
AnalyzeWithUnscoredEvent ==
    /\ score_call # None
    /\ Len(Val(score_call).latest.events) <= MaxScoreEvents
    /\ LET c == Val(score_call) IN
       \E e \in UnscoredEvents, i \in 1..(Len(c.latest.events) + 1) :
          score_call' = Some([c EXCEPT !.added = @ + 1,
                                       !.latest = ScoreRun(c.pair,
                                                    InsertAt(c.latest.events, i, e))])
    /\ UNCHANGED <<core_vars, sizing_vars, job_vars, fetch_vars, tg_vars,
                   main_vars, trend_vars,
                   late_vars>>

NextScore == AnalyzeEvents \/ AnalyzeWithUnscoredEvent

SpecScore == Init /\ [][NextScore]_vars

SameSignal(a, b) ==
    /\ (a = None) <=> (b = None)
    /\ a # None => Val(a).direction = Val(b).direction

\* C19: adding events whose actual equals the forecast, or that lack a usable
\* actual or forecast, to an event list leaves both currency scores
\* unchanged, and with them whether a fundamental signal exists and its
\* direction.
C19_UnscoredEventsChangeNothing ==
    score_call # None =>
        LET c == Val(score_call) IN
        /\ c.latest.base_score = c.first.base_score
        /\ c.latest.quote_score = c.first.quote_score
        /\ SameSignal(c.first.pair_signal, c.latest.pair_signal)
        /\ c.first.events # <<>> =>
              SameSignal(c.first.today_signal, c.latest.today_signal)
        /\ c.first.events = <<>> => c.latest.today_signal = None

\* A list that gives a signal, with an unscored event added to it: the
\* signal is still there, with another strength.
C19_Witness ==
    /\ score_call # None
    /\ Val(score_call).added = 1
    /\ Val(score_call).first.pair_signal # None
    /\ Val(score_call).latest.pair_signal # None
    /\ Val(Val(score_call).latest.pair_signal).strength
           # Val(Val(score_call).first.pair_signal).strength

----------------------------------------------------------------------------
(* analysis/trend_detector.py: the pattern detectors and the direction *)

\* lookback: int = 10 of the four _detect_* functions
Lookback == 10

\* series.tail(lookback).values
TailValues(s, lookback) ==
    IF Len(s) <= lookback THEN s ELSE SubSeq(s, Len(s) - lookback + 1, Len(s))

\* values[:-3]
AllButLast3(s) == IF Len(s) <= 3 THEN <<>> ELSE SubSeq(s, 1, Len(s) - 3)

Flag(b) == [kind |-> "returned", flag |-> b]
FlagRaised == [kind |-> "raised", flag |-> FALSE]

\* The common shape of the four detectors: False below 3 values; max() or
\* min() of the empty slice raises ValueError at exactly 3 values.
_detect_higher_highs(highs) ==
    LET w == TailValues(highs, Lookback) IN
    IF Len(w) < 3 THEN Flag(FALSE)
    ELSE IF AllButLast3(w) = <<>> THEN FlagRaised
    ELSE Flag(w[Len(w)] > MaxOf(Range(AllButLast3(w))))

_detect_higher_lows(lows) ==
    LET w == TailValues(lows, Lookback) IN
    IF Len(w) < 3 THEN Flag(FALSE)
    ELSE IF AllButLast3(w) = <<>> THEN FlagRaised
    ELSE Flag(w[Len(w)] > MinOf(Range(AllButLast3(w))))

_detect_lower_highs(highs) ==
    LET w == TailValues(highs, Lookback) IN
    IF Len(w) < 3 THEN Flag(FALSE)
    ELSE IF AllButLast3(w) = <<>> THEN FlagRaised
    ELSE Flag(w[Len(w)] < MaxOf(Range(AllButLast3(w))))

_detect_lower_lows(lows) ==
    LET w == TailValues(lows, Lookback) IN
    IF Len(w) < 3 THEN Flag(FALSE)
    ELSE IF AllButLast3(w) = <<>> THEN FlagRaised
    ELSE Flag(w[Len(w)] < MinOf(Range(AllButLast3(w))))

\* _determine_trend from the four flags
direction_of(ema_cmp, hh, hl, lh, ll) ==
    _determine_trend(ema_cmp,
                     IF hh THEN 1 ELSE IF lh THEN -1 ELSE 0,
                     IF hl THEN 1 ELSE IF ll THEN -1 ELSE 0)

\* The body of analyze_trend after the fetch: the bars are <<high, low>>
\* pairs, ema_cmp is the sign of ema50 - ema200 on the last bar.
analyze_trend_bars(ema_cmp, bars) ==
    LET highs == [i \in 1..Len(bars) |-> bars[i][1]]
        lows == [i \in 1..Len(bars) |-> bars[i][2]]
        hh == _detect_higher_highs(highs)
        hl == _detect_higher_lows(lows)
        lh == _detect_lower_highs(highs)
        ll == _detect_lower_lows(lows)
    IN  IF \E d \in {hh, hl, lh, ll} : d.kind = "raised"
        THEN [kind |-> "raised", direction |-> "",
              higher_highs |-> FALSE, higher_lows |-> FALSE,
              lower_highs |-> FALSE, lower_lows |-> FALSE]
        ELSE [kind |-> "returned",
              direction |-> direction_of(ema_cmp, hh.flag, hl.flag, lh.flag, ll.flag),
              higher_highs |-> hh.flag, higher_lows |-> hl.flag,
              lower_highs |-> lh.flag, lower_lows |-> ll.flag]

MaxTrendBars == 4

TrendBars == {<<h, l>> : h \in 2..5, l \in 1..4} \ {<<h, l>> \in (2..5) \X (1..4) : l >= h}

\* Rising and falling series around the length of the lookback window
RisingBars(n) == [i \in 1..n |-> <<i + 1, i>>]
FallingBars(n) == [i \in 1..n |-> <<n + 2 - i, n + 1 - i>>]
LongSeries ==
    {RisingBars(n) : n \in (Lookback - 2)..(Lookback + 2)}
        \cup {FallingBars(n) : n \in (Lookback - 2)..(Lookback + 2)}

AnalyzeTrendBars ==
    /\ trend_call = None
    /\ \E ema_cmp \in Signs,
          bars \in (SeqsUpTo(TrendBars, MaxTrendBars) \ {<<>>}) \cup LongSeries :
        trend_call' = Some([ema_cmp |-> ema_cmp, bars |-> bars,
                            analysis |-> analyze_trend_bars(ema_cmp, bars)])
    /\ UNCHANGED <<core_vars, sizing_vars, job_vars, fetch_vars, tg_vars,
                   main_vars, score_vars,
                   late_vars>>

NextTrend == AnalyzeTrendBars

SpecTrend == Init /\ [][NextTrend]_vars

StrictlyRising(bars) ==
    \A i \in 1..(Len(bars) - 1) :
        bars[i + 1][1] > bars[i][1] /\ bars[i + 1][2] > bars[i][2]

\* C20: with fast EMA > slow EMA the direction is bullish when (higher-high
\* and higher-low) or not (lower-high and lower-low), else sideways; with
\* fast < slow it is bearish when (lower-high and lower-low) or not
\* (higher-high and higher-low), else sideways; with fast = slow it is
\* sideways; a series with fast > slow and strictly increasing highs and lows
\* over the window gives bullish with higher_highs = higher_lows = TRUE; the
\* direction is one of bullish, bearish and sideways.
C20_DirectionDecision ==
    trend_call # None /\ Val(trend_call).analysis.kind = "returned" =>
        LET c == Val(trend_call)
            a == c.analysis
            up == a.higher_highs /\ a.higher_lows
            down == a.lower_highs /\ a.lower_lows
        IN  /\ c.ema_cmp > 0 =>
                  a.direction = (IF up \/ ~down THEN BULLISH ELSE SIDEWAYS)
            /\ c.ema_cmp < 0 =>
                  a.direction = (IF down \/ ~up THEN BEARISH ELSE SIDEWAYS)
            /\ c.ema_cmp = 0 => a.direction = SIDEWAYS
            /\ c.ema_cmp > 0 /\ StrictlyRising(c.bars) /\ Len(c.bars) > 3 =>
                  /\ a.direction = BULLISH
                  /\ a.higher_highs /\ a.higher_lows
            /\ a.direction \in {BULLISH, BEARISH, SIDEWAYS}

\* A rising series longer than the lookback window, fast EMA above slow
C20_Witness ==
    /\ trend_call # None
    /\ Val(trend_call).ema_cmp = 1
    /\ Val(trend_call).bars = RisingBars(Lookback + 2)
    /\ Val(trend_call).analysis.direction = BULLISH
    /\ Val(trend_call).analysis.higher_highs
    /\ Val(trend_call).analysis.higher_lows

----------------------------------------------------------------------------
(* analysis/liquidity_zones.py: the four scans over the candles *)

\* Candle prices are binary floating-point numbers.  Here a float is a
\* positive integer with at most FloatBits significant bits, and every
\* arithmetic result is rounded to the nearest such number, ties to the even
\* significand, as IEEE 754 does with 53 bits.
FloatBits == 4

RECURSIVE Quantum(_, _, _)
Quantum(num, den, q) ==
    IF num < den * q * Pow2(FloatBits) THEN q ELSE Quantum(num, den, 2 * q)

\* The float nearest to num / den
fl(num, den) ==
    LET q == Quantum(num, den, 1)
        k == num \div (den * q)
        twice_rest == 2 * (num - k * den * q)
    IN  IF twice_rest < den * q THEN k * q
        ELSE IF twice_rest > den * q THEN (k + 1) * q
        ELSE IF k % 2 = 0 THEN k * q
        ELSE (k + 1) * q

RECURSIVE FloatSum(_, _)
FloatSum(xs, acc) ==
    IF xs = <<>> THEN acc ELSE FloatSum(Tail(xs), fl(acc + Head(xs), 1))

\* np.mean: the rounded running sum, divided by the count and rounded
np_mean(xs) == fl(FloatSum(xs, 0), Len(xs))

Zone(zone_type, price_level, price_range, strength, touches, candle_index) ==
    [zone_type |-> zone_type, price_level |-> price_level,
     price_range |-> price_range, strength |-> strength, touches |-> touches,
     candle_index |-> candle_index]

\* config.EQUAL_LEVEL_TOLERANCE as a fraction, config.MIN_TOUCHES
ScanConfigs == [tolerance : {<<15, 10000>>, <<1, 10>>}, MIN_TOUCHES : {2, 3}]

\* Rows i (from 2) whose value is above both neighbours; the first and the
\* last row compare with NaN and are never swings
RECURSIVE SwingHighs(_, _)
SwingHighs(highs, i) ==
    IF i >= Len(highs) THEN <<>>
    ELSE (IF highs[i] > highs[i - 1] /\ highs[i] > highs[i + 1] THEN <<i>> ELSE <<>>)
         \o SwingHighs(highs, i + 1)

RECURSIVE SwingLows(_, _)
SwingLows(lows, i) ==
    IF i >= Len(lows) THEN <<>>
    ELSE (IF lows[i] < lows[i - 1] /\ lows[i] < lows[i + 1] THEN <<i>> ELSE <<>>)
         \o SwingLows(lows, i + 1)

\* abs(a - b) / a <= tolerance, and the strict form of the duplicate test
WithinTolerance(a, b, tol) == Abs(a - b) * tol[2] <= tol[1] * a
StrictlyWithinTolerance(a, b, tol) == Abs(a - b) * tol[2] < tol[1] * a

\* The positions j of the swing list whose level is similar to `level`
RECURSIVE SimilarTo(_, _, _, _)
SimilarTo(level, levels, j, tol) ==
    IF j > Len(levels) THEN <<>>
    ELSE (IF WithinTolerance(level, levels[j], tol) THEN <<j>> ELSE <<>>)
         \o SimilarTo(level, levels, j + 1, tol)

\* The grouping loop shared by the equal-highs and the equal-lows scan
RECURSIVE GroupEqualLevels(_, _, _, _, _, _)
GroupEqualLevels(zone_type, values, swings, i, cfg, zs) ==
    IF i > Len(swings) THEN zs
    ELSE LET levels == [k \in 1..Len(swings) |-> values[swings[k]]]
             similar == SimilarTo(levels[i], levels, 1, cfg.tolerance)
             similar_levels == [k \in 1..Len(similar) |-> levels[similar[k]]]
             zone == Zone(zone_type, np_mean(similar_levels),
                          <<MinOf(Range(similar_levels)), MaxOf(Range(similar_levels))>>,
                          IF Len(similar) < 5 THEN Len(similar) ELSE 5,
                          Len(similar), swings[similar[Len(similar)]])
             duplicate == \E k \in 1..Len(zs) :
                             StrictlyWithinTolerance(zone.price_level,
                                                     zs[k].price_level, cfg.tolerance)
         IN  GroupEqualLevels(zone_type, values, swings, i + 1, cfg,
                              IF Len(similar) >= cfg.MIN_TOUCHES /\ ~duplicate
                              THEN Append(zs, zone) ELSE zs)

_detect_equal_highs(highs, cfg) ==
    LET swings == SwingHighs(highs, 2)
    IN  IF Len(swings) < cfg.MIN_TOUCHES THEN <<>>
        ELSE GroupEqualLevels("equal_highs", highs, swings, 1, cfg, <<>>)

_detect_equal_lows(lows, cfg) ==
    LET swings == SwingLows(lows, 2)
    IN  IF Len(swings) < cfg.MIN_TOUCHES THEN <<>>
        ELSE GroupEqualLevels("equal_lows", lows, swings, 1, cfg, <<>>)

Candle(open, high, low, close) ==
    [open |-> open, high |-> high, low |-> low, close |-> close]

\* lookback = 20 of _detect_stop_hunts
StopHuntLookback == 20

\* The rows i (from 1) of range(lookback, len(df) - 1)
RECURSIVE StopHunts(_, _)
StopHunts(df, i) ==
    IF i > Len(df) - 1 THEN <<>>
    ELSE LET candle == df[i]
             next_candle == df[i + 1]
             recent == {df[k] : k \in (i - StopHuntLookback)..(i - 1)}
             recent_high == MaxOf({c.high : c \in recent})
             recent_low == MinOf({c.low : c \in recent})
             found ==
                 IF /\ candle.low < recent_low
                    /\ candle.close > candle.open
                    /\ next_candle.close > candle.close
                 THEN <<Zone("stop_hunt_buy", candle.low,
                             <<candle.low, fl(candle.low * 1001, 1000)>>, 4, 1, i)>>
                 ELSE IF /\ candle.high > recent_high
                         /\ candle.close < candle.open
                         /\ next_candle.close < candle.close
                 THEN <<Zone("stop_hunt_sell", candle.high,
                             <<fl(candle.high * 999, 1000), candle.high>>, 4, 1, i)>>
                 ELSE <<>>
         IN  found \o StopHunts(df, i + 1)

_detect_stop_hunts(df) == StopHunts(df, StopHuntLookback + 1)

\* config.FVG_MIN_SIZE as a fraction
FvgMinSizes == {<<5, 10000>>, <<1, 10>>}

RECURSIVE FairValueGaps(_, _, _)
FairValueGaps(df, i, min_gap) ==
    IF i > Len(df) THEN <<>>
    ELSE LET candle1 == df[i - 2]
             candle3 == df[i]
             found ==
                 IF candle1.high < candle3.low
                 THEN (IF (candle3.low - candle1.high) * min_gap[2]
                              >= min_gap[1] * candle1.high
                       THEN <<Zone("fvg_bullish",
                                   fl(fl(candle1.high + candle3.low, 1), 2),
                                   <<candle1.high, candle3.low>>, 3, 0, i)>>
                       ELSE <<>>)
                 ELSE IF candle1.low > candle3.high
                 THEN (IF (candle1.low - candle3.high) * min_gap[2]
                              >= min_gap[1] * candle3.high
                       THEN <<Zone("fvg_bearish",
                                   fl(fl(candle1.low + candle3.high, 1), 2),
                                   <<candle3.high, candle1.low>>, 3, 0, i)>>
                       ELSE <<>>)
                 ELSE <<>>
         IN  found \o FairValueGaps(df, i + 1, min_gap)

_detect_fair_value_gaps(df, min_gap) == FairValueGaps(df, 3, min_gap)

\* The candle prices drawn, all floats, and the candles made of them
ScanPrices == {12, 13, 14}
ScanCandles ==
    {Candle(o, h, l, c) : o \in ScanPrices, h \in ScanPrices, l \in ScanPrices,
                          c \in ScanPrices}
        \ {Candle(o, h, l, c) : <<o, h, l, c>> \in
              {x \in ScanPrices \X ScanPrices \X ScanPrices \X ScanPrices :
                  x[3] > x[1] \/ x[3] > x[4] \/ x[2] < x[1] \/ x[2] < x[4]}}

MaxSwingCandles == 7

ScanEqualHighs ==
    /\ zone_call = None
    /\ \E cfg \in ScanConfigs, highs \in SeqsUpTo(ScanPrices, MaxSwingCandles) :
        zone_call' = Some([scan |-> "equal_highs", cfg |-> cfg, column |-> highs,
                           found |-> _detect_equal_highs(highs, cfg)])
    /\ UNCHANGED <<core_vars, mid_vars, mon_vars, sched_vars, align_vars, cal_vars>>

ScanEqualLows ==
    /\ zone_call = None
    /\ \E cfg \in ScanConfigs, lows \in SeqsUpTo(ScanPrices, MaxSwingCandles) :
        zone_call' = Some([scan |-> "equal_lows", cfg |-> cfg, column |-> lows,
                           found |-> _detect_equal_lows(lows, cfg)])
    /\ UNCHANGED <<core_vars, mid_vars, mon_vars, sched_vars, align_vars, cal_vars>>

\* A frame of `lookback` equal candles followed by two more
ScanStopHunts ==
    /\ zone_call = None
    /\ \E base \in ScanCandles, candle \in ScanCandles, next_candle \in ScanCandles :
        LET df == [i \in 1..StopHuntLookback |-> base] \o <<candle, next_candle>>
        IN  zone_call' = Some([scan |-> "stop_hunts", cfg |-> <<>>,
                               column |-> <<base, candle, next_candle>>,
                               found |-> _detect_stop_hunts(df)])
    /\ UNCHANGED <<core_vars, mid_vars, mon_vars, sched_vars, align_vars, cal_vars>>

ScanFairValueGaps ==
    /\ zone_call = None
    /\ \E min_gap \in FvgMinSizes, c1 \in ScanCandles, c2 \in ScanCandles,
          c3 \in ScanCandles :
        zone_call' = Some([scan |-> "fair_value_gaps", cfg |-> min_gap,
                           column |-> <<c1, c2, c3>>,
                           found |-> _detect_fair_value_gaps(<<c1, c2, c3>>, min_gap)])
    /\ UNCHANGED <<core_vars, mid_vars, mon_vars, sched_vars, align_vars, cal_vars>>

NextScan == ScanEqualHighs \/ ScanEqualLows \/ ScanStopHunts \/ ScanFairValueGaps

SpecScan == Init /\ [][NextScan]_vars

\* C21: every zone produced by the equal-highs, equal-lows, stop-hunt and
\* fair-value-gap scans over candles with positive prices has
\* price_range[0] <= price_range[1], and its price_level within the range.
C21_ZoneRangeOrdered ==
    zone_call # None =>
        \A i \in 1..Len(Val(zone_call).found) :
            LET z == Val(zone_call).found[i] IN
            /\ z.price_range[1] <= z.price_range[2]
            /\ z.price_range[1] <= z.price_level
            /\ z.price_level <= z.price_range[2]

----------------------------------------------------------------------------
(* PositionMonitor: one monitored position polled by check_positions *)

\* prices a poll can see: 0 (no candle), and entry 100000 plus or minus
\* steps of 0.25%
MonSteps == 12
MonitorEntries == {100000}
MonitorStopDistances == {500, 1000}
MonitorPrices == {0} \cup {100000 + 250 * k : k \in (0 - MonSteps)..MonSteps}

\* the R-multiple in tenths, rounded down: reward over the distance from
\* entry to the stop given; with no distance the division has no result
calculate_r_multiple(direction, entry_price, cur_price, stop_loss) ==
    LET risk == Abs(entry_price - stop_loss)
        reward == IF direction = "long" THEN cur_price - entry_price
                  ELSE entry_price - cur_price
    IN  IF risk = 0 THEN {Returned(0), Raised("ZeroDivisionError")}
        ELSE {Returned((reward * 10) \div risk)}

\* the dict add_position stores
MonitoredPosition(direction, entry_price, stop_loss, tp1, tp2, tp3) ==
    [direction |-> direction, entry_price |-> entry_price,
     current_stop |-> stop_loss, tp1 |-> tp1, tp2 |-> tp2, tp3 |-> tp3,
     tp1_hit |-> FALSE, tp2_hit |-> FALSE, tp3_hit |-> FALSE]

\* price has reached a take-profit level
tp_reached(direction, cur_price, tp) ==
    \/ direction = "long" /\ cur_price >= tp
    \/ direction = "short" /\ cur_price <= tp

\* mutant: the TP1 test made on every poll, the flag not consulted
tp1_due_every_poll(p, cur_price) ==
    tp_reached(p.direction, cur_price, p.tp1)

\* "if not position['tp1_hit']" and the tp1_hit it computes
tp1_due(p, cur_price) ==
    ~p.tp1_hit /\ tp_reached(p.direction, cur_price, p.tp1)

tp2_due(p, cur_price) ==
    p.tp1_hit /\ ~p.tp2_hit /\ tp_reached(p.direction, cur_price, p.tp2)

\* The progress of one _check_single_position: the position dict, whether
\* its key is still in active_positions, the alerts awaited so far, the
\* values assigned to position['current_stop'] in order, and whether an
\* exception has ended the call.
PollStart(p) ==
    [pos |-> p, monitored |-> TRUE, sends |-> <<>>, stores |-> <<>>,
     raised |-> FALSE]

\* await self.telegram.send_message(...): the fail_at-th alert of the poll
\* raises, the others return True (delivered) or False
send_alert(c, kind, fail_at, delivered) ==
    IF c.raised THEN c
    ELSE IF Len(c.sends) + 1 = fail_at
    THEN [c EXCEPT !.sends = Append(@, [kind |-> kind, outcome |-> "raised"]),
                   !.raised = TRUE]
    ELSE [c EXCEPT !.sends = Append(@, [kind |-> kind,
                                        outcome |-> IF delivered THEN "sent"
                                                    ELSE "not_sent"])]

\* position['current_stop'] = new_stop
store_stop(c, new_stop) ==
    IF c.raised THEN c
    ELSE [c EXCEPT !.pos.current_stop = new_stop,
                   !.stores = Append(@, new_stop)]

\* del self.active_positions[position_key]; a key already gone is a KeyError
delete_position(c) ==
    IF c.raised THEN c
    ELSE IF c.monitored THEN [c EXCEPT !.monitored = FALSE]
    ELSE [c EXCEPT !.raised = TRUE]

check_tp1(c, cur_price, fail_at, delivered) ==
    IF ~c.raised /\ tp1_due(c.pos, cur_price)
    THEN store_stop(send_alert([c EXCEPT !.pos.tp1_hit = TRUE], "tp1",
                               fail_at, delivered),
                    c.pos.entry_price)
    ELSE c

check_tp2(c, cur_price, fail_at, delivered) ==
    IF ~c.raised /\ tp2_due(c.pos, cur_price)
    THEN LET p == c.pos
             stop_distance == Abs(p.entry_price - p.current_stop)
         IN  store_stop(send_alert([c EXCEPT !.pos.tp2_hit = TRUE], "tp2",
                                   fail_at, delivered),
                        IF p.direction = "long"
                        THEN p.entry_price + stop_distance
                        ELSE p.entry_price - stop_distance)
    ELSE c

\* current_stop is the local read at the top of the call, not the dict's
check_tp3_or_trail(c, cur_price, current_stop, r10, fail_at, delivered) ==
    IF ~c.raised /\ c.pos.tp2_hit
    THEN LET p == c.pos IN
         IF tp_reached(p.direction, cur_price, p.tp3) /\ ~p.tp3_hit
         THEN send_alert(
                  delete_position(
                      send_alert([c EXCEPT !.pos.tp3_hit = TRUE], "tp3",
                                 fail_at, delivered)),
                  "closed", fail_at, delivered)
         ELSE LET update == should_update_stop(p.direction, p.entry_price,
                                               cur_price, current_stop,
                                               r10, None)
              IN  IF update # None
                  THEN send_alert(store_stop(c, Val(update).new_stop),
                                  "stop_update", fail_at, delivered)
                  ELSE c
    ELSE c

check_stop_hit(c, cur_price, current_stop, fail_at, delivered) ==
    IF ~c.raised
       /\ (\/ c.pos.direction = "long" /\ cur_price <= current_stop
           \/ c.pos.direction = "short" /\ cur_price >= current_stop)
    THEN send_alert(delete_position(c), "stop_hit", fail_at, delivered)
    ELSE c

\* price and r_multiple are outcomes: either may have raised
_check_single_position(p, price, r_multiple, fail_at, delivered) ==
    IF price.kind = "raised" \/ r_multiple.kind = "raised"
    THEN [PollStart(p) EXCEPT !.raised = TRUE]
    ELSE LET current_stop == p.current_stop
             cur_price == price.value
             r10 == r_multiple.value
         IN  check_stop_hit(
                 check_tp3_or_trail(
                     check_tp2(
                         check_tp1(PollStart(p), cur_price, fail_at, delivered),
                         cur_price, fail_at, delivered),
                     cur_price, current_stop, r10, fail_at, delivered),
                 cur_price, current_stop, fail_at, delivered)

\* the alerts of a poll that announce a take-profit, as level numbers
TpLevel(kind) == IF kind = "tp1" THEN 1 ELSE IF kind = "tp2" THEN 2 ELSE 3
TpSends(sends) ==
    SelectSeq(sends, LAMBDA s : s.kind \in {"tp1", "tp2", "tp3"})

\* add_position with the levels calculate_sl_tp gives: 1R, 2R and 3R
AddPosition ==
    /\ mon_position = None
    /\ \E direction \in {"long", "short"}, entry \in MonitorEntries,
          d \in MonitorStopDistances :
         LET sign == IF direction = "long" THEN 1 ELSE 0 - 1
         IN  mon_position' =
               Some([position |-> MonitoredPosition(direction, entry,
                                                    entry - sign * d,
                                                    entry + sign * d,
                                                    entry + sign * 2 * d,
                                                    entry + sign * 3 * d),
                     monitored |-> TRUE])
    /\ mon_alerts' = <<>>
    /\ mon_last' = None
    /\ UNCHANGED <<core_vars, mid_vars, scan_vars, sched_vars, align_vars, cal_vars>>

\* one check_positions poll of the position; an exception of the check is
\* logged and the poll ends
CheckPositions ==
    /\ mon_position # None
    /\ Val(mon_position).monitored
    /\ \E price \in {Returned(x) : x \in MonitorPrices} \cup {Raised("DataFetchError")},
          fail_at \in 0..3, delivered \in BOOLEAN :
         LET p == Val(mon_position).position
             cp == IF price.kind = "returned" THEN price.value ELSE 0
         IN  \E r_multiple \in calculate_r_multiple(p.direction, p.entry_price,
                                                    cp, p.current_stop) :
               LET c == _check_single_position(p, price, r_multiple,
                                               fail_at, delivered)
               IN  /\ mon_position' = Some([position |-> c.pos,
                                            monitored |-> c.monitored])
                   /\ mon_alerts' = mon_alerts \o
                          [i \in 1..Len(TpSends(c.sends)) |->
                              [level |-> TpLevel(TpSends(c.sends)[i].kind),
                               outcome |-> TpSends(c.sends)[i].outcome]]
                   /\ mon_last' = Some([before |-> p, current_price |-> price,
                                        stores |-> c.stores, sends |-> c.sends,
                                        raised |-> c.raised])
    /\ UNCHANGED <<core_vars, mid_vars, scan_vars, sched_vars, align_vars, cal_vars>>

NextMonitor == AddPosition \/ CheckPositions

SpecMonitor == Init /\ [][NextMonitor]_vars

MonPos == Val(mon_position).position
LastPoll == Val(mon_last)

\* the stop the last poll started from, then every value it stored, in order
StopTrace == <<LastPoll.before.current_stop>> \o LastPoll.stores

\* C22: over any polls and prices the stored current_stop of a monitored
\* position never moves against the trade: every value a poll stores is at
\* least as good as the value stored before it, across the TP1, TP2 and
\* trailing moves, in one poll or in several.
C22_StoredStopNeverLoosens ==
    mon_last # None =>
        \A i \in 1..(Len(StopTrace) - 1) :
            AtLeast(LastPoll.before.direction, StopTrace[i + 1], StopTrace[i])

\* C23: from the end of the poll that set tp1_hit on, the position's
\* current_stop is at the entry price or better, whatever the TP1 alert did.
C23_BreakevenAfterTp1 ==
    (mon_position # None /\ MonPos.tp1_hit) =>
        AtLeast(MonPos.direction, MonPos.current_stop, MonPos.entry_price)

\* the take-profit alerts awaited for the position so far, as level numbers
AlertLevels == [i \in 1..Len(mon_alerts) |-> mon_alerts[i].level]

\* C29: tp3_hit implies tp2_hit implies tp1_hit; a flag once set stays set;
\* and the TP1, TP2 and TP3 alerts are each sent at most once, in that order.
C29_TakeProfitProgression ==
    /\ [](mon_position # None =>
            /\ MonPos.tp3_hit => MonPos.tp2_hit
            /\ MonPos.tp2_hit => MonPos.tp1_hit
            /\ \A i \in 1..(Len(AlertLevels) - 1) :
                   AlertLevels[i] < AlertLevels[i + 1])
    /\ [][(mon_position # None /\ mon_position' # None) =>
            /\ MonPos.tp1_hit => Val(mon_position').position.tp1_hit
            /\ MonPos.tp2_hit => Val(mon_position').position.tp2_hit
            /\ MonPos.tp3_hit => Val(mon_position').position.tp3_hit]_vars

\* all three levels reached over several polls and the three alerts awaited
C29_Witness ==
    /\ mon_position # None
    /\ MonPos.tp3_hit
    /\ AlertLevels = <<1, 2, 3>>
    /\ mon_last # None
    /\ Len(TpSends(LastPoll.sends)) = 1

----------------------------------------------------------------------------
(* The two trend-alignment checks: JobScheduler._check_trend_alignment on
   the enum values' text, SignalGenerator._check_alignment on the members *)

\* the .value of a FundamentalDirection or TrendDirection member, as its
\* characters
enum_value(member) ==
    CASE member = USD_STRONGER -> <<"u", "s", "d", "_", "s", "t", "r", "o", "n", "g", "e", "r">>
      [] member = USD_WEAKER -> <<"u", "s", "d", "_", "w", "e", "a", "k", "e", "r">>
      [] member = COUNTERPARTY_STRONGER ->
            <<"c", "o", "u", "n", "t", "e", "r", "p", "a", "r", "t", "y", "_", "s", "t", "r", "o", "n", "g", "e", "r">>
      [] member = COUNTERPARTY_WEAKER ->
            <<"c", "o", "u", "n", "t", "e", "r", "p", "a", "r", "t", "y", "_", "w", "e", "a", "k", "e", "r">>
      [] member = BULLISH -> <<"b", "u", "l", "l", "i", "s", "h">>
      [] member = BEARISH -> <<"b", "e", "a", "r", "i", "s", "h">>
      [] member = SIDEWAYS -> <<"s", "i", "d", "e", "w", "a", "y", "s">>

UpperCase == <<"A", "B", "C", "D", "E", "F", "G", "H", "I", "J", "K", "L", "M", "N", "O", "P", "Q", "R", "S", "T", "U", "V", "W", "X", "Y", "Z">>
LowerCase == <<"a", "b", "c", "d", "e", "f", "g", "h", "i", "j", "k", "l", "m", "n", "o", "p", "q", "r", "s", "t", "u", "v", "w", "x", "y", "z">>

\* str.lower()
lower(s) ==
    [i \in 1..Len(s) |->
        IF \E k \in 1..Len(UpperCase) : UpperCase[k] = s[i]
        THEN LowerCase[CHOOSE k \in 1..Len(UpperCase) : UpperCase[k] = s[i]]
        ELSE s[i]]

\* needle in hay
Contains(hay, needle) ==
    \E i \in 1..(Len(hay) - Len(needle) + 1) :
        SubSeq(hay, i, i + Len(needle) - 1) = needle

_check_trend_alignment(fund, trend) ==
    LET fund_dir == enum_value(fund.direction)
        trend_dir == enum_value(trend.direction)
    IN  IF \/ Contains(lower(fund_dir), <<"s", "t", "r", "o", "n", "g", "e", "r">>)
           \/ Contains(lower(fund_dir), <<"b", "u", "l", "l", "i", "s", "h">>)
        THEN trend_dir = <<"b", "u", "l", "l", "i", "s", "h">>
        ELSE IF \/ Contains(lower(fund_dir), <<"w", "e", "a", "k", "e", "r">>)
                \/ Contains(lower(fund_dir), <<"b", "e", "a", "r", "i", "s", "h">>)
        THEN trend_dir = <<"b", "e", "a", "r", "i", "s", "h">>
        ELSE FALSE

\* scores (tenths) the fundamental analysis can have found for a pair
AlignScores10 == {0 - 30, 0 - 15, 0, 15, 30}
AlignEventCounts == {1, 3}

\* one fundamental signal and one H4 or H1 trend of the same pair, given to
\* both checks
CheckAlignments ==
    /\ align_call = None
    /\ \E pair \in CurrencyPair, base \in AlignScores10, quote \in AlignScores10,
          event_count \in AlignEventCounts, timeframe \in {"H4", "H1"},
          ema_cmp \in Signs, high_cmp \in Signs, low_cmp \in Signs :
         LET fund == analyze_today(pair, event_count, base, quote)
             trend == analyze_trend(pair, timeframe, ema_cmp, high_cmp, low_cmp)
         IN  /\ fund # None
             /\ align_call' =
                  Some([fundamental |-> Val(fund), trend |-> trend,
                        scheduler |-> _check_trend_alignment(Val(fund), trend),
                        generator |-> _check_alignment(Val(fund), trend)])
    /\ UNCHANGED <<core_vars, mid_vars, scan_vars, mon_vars, sched_vars, cal_vars>>

NextAlign == CheckAlignments

SpecAlign == Init /\ [][NextAlign]_vars

\* C25: the scheduler's _check_trend_alignment and the generator's
\* _check_alignment accept exactly the same combinations of fundamental
\* direction and trend direction.
C25_SameCombinationsAccepted ==
    align_call # None =>
        (Val(align_call).scheduler <=> Val(align_call).generator)

----------------------------------------------------------------------------
(* The stop a stored signal's position was sized for *)

SizedForOwnStop(signal, sized) ==
    /\ signal.stop_loss # None
    /\ sized.stop_loss = Val(signal.stop_loss)
    /\ RightSide(signal.direction, signal.entry_price, sized.stop_loss)

\* C26: in every complete signal stored or alerted by the signal-generation
\* stage the position was sized for the signal's own stop: position.stop_loss
\* equals signal.stop_loss and lies on the correct side of entry for the
\* signal's direction.
C26_PositionSizedForSignalStop ==
    /\ \A p \in DOMAIN active_signals :
          SizedForOwnStop(active_signals[p].signal, active_signals[p].position)
    /\ \A i \in 1..Len(alerts) :
          SizedForOwnStop(alerts[i].signal, alerts[i].position)

----------------------------------------------------------------------------
(* JobScheduler: the jobs of a day in cron order, over active_signals and
   active_trades *)

\* self.pairs in order, and the sessions the jobs are scheduled for
SchedPairs == <<"GBP/USD", "USD/JPY">>
Sessions == {"London", "NewYork"}

\* pair.value and the session argument as their characters
text_of(name) ==
    CASE name = "GBP/USD" -> <<"G", "B", "P", "/", "U", "S", "D">>
      [] name = "USD/JPY" -> <<"U", "S", "D", "/", "J", "P", "Y">>
      [] name = "London" -> <<"L", "o", "n", "d", "o", "n">>
      [] name = "NewYork" -> <<"N", "e", "w", "Y", "o", "r", "k">>

\* f"{pair_name}_{session}"
signal_key(pair_name, session) ==
    text_of(pair_name) \o <<"_">> \o text_of(session)

\* signal_key.split('_')[0]
split_first(key) ==
    IF \E i \in 1..Len(key) : key[i] = "_"
    THEN LET i == CHOOSE i \in 1..Len(key) :
                      key[i] = "_" /\ \A j \in 1..(i - 1) : key[j] # "_"
         IN  SubSeq(key, 1, i - 1)
    ELSE key

\* next((p for p in self.pairs if p.value == pair_name), None)
pair_named(pair_name) ==
    LET found == SelectSeq(SchedPairs, LAMBDA q : text_of(q) = pair_name)
    IN  IF found = <<>> THEN None ELSE Some(Head(found))

\* A dict in insertion order: a sequence of [key, value] items
HasKey(d, k) == \E i \in 1..Len(d) : d[i].key = k
Get(d, k) == d[CHOOSE i \in 1..Len(d) : d[i].key = k].value
Put(d, k, v) ==
    IF HasKey(d, k)
    THEN [i \in 1..Len(d) |-> IF d[i].key = k THEN [key |-> k, value |-> v]
                              ELSE d[i]]
    ELSE Append(d, [key |-> k, value |-> v])
Del(d, k) == SelectSeq(d, LAMBDA item : item.key # k)
Keys(d) == [i \in 1..Len(d) |-> d[i].key]

\* the entry the screening stores; 'trends' and 'complete_signal' are keys
\* added later, absent here
SignalEntry(session, fund) ==
    [session |-> session, fundamental |-> fund, trends |-> None,
     complete_signal |-> None]

\* what analyze_today can return for a pair: no signal, or the signal
\* _analyze_pair gives when the base currency scores 2.0 above the quote
SchedFundamentals(pair) == {None, _analyze_pair(pair, 20, 0, 2)}

RECURSIVE store_fundamentals(_, _, _, _)
store_fundamentals(pairs, session, fundamental_signals, stored) ==
    IF pairs = <<>> THEN stored
    ELSE LET pair == Head(pairs)
             fund == fundamental_signals[pair]
         IN  store_fundamentals(Tail(pairs), session, fundamental_signals,
                 IF fund = None THEN stored
                 ELSE Put(stored, signal_key(pair, session),
                          SignalEntry(session, Val(fund))))

\* what analyze_multi_timeframe and the technical alert do for a pair
TechnicalInputs ==
    [trends : {Raised("TrendDetectionError")}
                 \cup {Returned([H4 |-> analyze_trend("", "H4", s, s, s),
                                 H1 |-> analyze_trend("", "H1", s, s, s)])
                         : s \in {0 - 1, 1}},
     alert_raises : BOOLEAN]

\* the loop of _run_technical_analysis, one try around it.
\* reached lists the pairs whose analysis began; raised tells that an
\* exception left the loop.
RECURSIVE technical_loop(_, _, _, _, _)
technical_loop(pairs, session, stored, inputs, reached) ==
    IF pairs = <<>>
    THEN [signals |-> stored, reached |-> reached, raised |-> FALSE]
    ELSE LET pair == Head(pairs)
             key == signal_key(pair, session)
         IN  IF ~HasKey(stored, key)
             THEN technical_loop(Tail(pairs), session, stored, inputs, reached)
             ELSE LET in == inputs[pair]
                      now == Append(reached, pair)
                  IN  IF in.trends.kind = "raised"
                      THEN [signals |-> stored, reached |-> now, raised |-> TRUE]
                      ELSE LET trends == in.trends.value
                               entry == Get(stored, key)
                               with_trends ==
                                   Put(stored, key,
                                       [entry EXCEPT !.trends = Some(trends)])
                               confirms ==
                                   _check_trend_alignment(entry.fundamental,
                                                          trends.H4)
                           IN  IF in.alert_raises
                               THEN [signals |-> with_trends, reached |-> now,
                                     raised |-> TRUE]
                               ELSE technical_loop(
                                        Tail(pairs), session,
                                        IF ~confirms THEN Del(with_trends, key)
                                        ELSE with_trends,
                                        inputs, now)

\* "Find pairs with confirmed signals": the pair of every key that contains
\* the session
RECURSIVE pairs_to_analyze(_, _)
pairs_to_analyze(keys, session) ==
    IF keys = <<>> THEN <<>>
    ELSE LET rest == pairs_to_analyze(Tail(keys), session)
             pair == pair_named(split_first(Head(keys)))
         IN  IF Contains(Head(keys), text_of(session)) /\ pair # None
             THEN <<Val(pair)>> \o rest
             ELSE rest

\* what generate_signal and the enrichment do for a pair: no signal, an
\* error (inside generate_signal or the enrichment, caught in the loop), or
\* a complete signal; the READY TO TRADE alert comes after the entry is
\* stored and its error is caught in the loop too
GenerationInputs ==
    {[outcome |-> o, direction |-> ""] : o \in {"none", "raised"}}
    \cup {[outcome |-> "complete", direction |-> direction]
            : direction \in {"long", "short"}}

\* both loops over pairs, the one in generate_signals and the one in
\* _run_signal_generation, each with its try inside the loop
RECURSIVE generation_loop(_, _, _, _, _)
generation_loop(pairs, session, stored, inputs, reached) ==
    IF pairs = <<>> THEN [signals |-> stored, reached |-> reached]
    ELSE LET pair == Head(pairs)
             key == signal_key(pair, session)
             in == inputs[pair]
             now == Append(reached, pair)
         IN  IF in.outcome # "complete"
             THEN generation_loop(Tail(pairs), session, stored, inputs, now)
             ELSE generation_loop(
                      Tail(pairs), session,
                      Put(stored, key,
                          [Get(stored, key) EXCEPT !.complete_signal =
                              Some([pair |-> pair, direction |-> in.direction,
                                    entry_price |-> 100000])]),
                      inputs, now)

\* what get_current_price and the confirmed or cancelled notification do
ReactionInputs ==
    [price : {Raised("DataFetchError")}
                \cup {Returned(x) : x \in {99800, 100000, 100200}},
     alert_raises : BOOLEAN]

\* current_price >= entry * 0.999, current_price <= entry * 1.001
price_confirms(direction, cur_price, entry) ==
    IF direction = "long" THEN cur_price * 1000 >= entry * 999
    ELSE cur_price * 1000 <= entry * 1001

\* the loop of _run_market_reaction over list(self.active_signals.keys()),
\* one try around it
RECURSIVE reaction_loop(_, _, _, _, _, _)
reaction_loop(keys, session, stored, trades, inputs, prices) ==
    IF keys = <<>>
    THEN [signals |-> stored, trades |-> trades, prices |-> prices,
          raised |-> FALSE]
    ELSE LET key == Head(keys) IN
         IF ~Contains(key, text_of(session))
         THEN reaction_loop(Tail(keys), session, stored, trades, inputs, prices)
         ELSE LET signal_data == Get(stored, key).complete_signal IN
              IF signal_data = None
              THEN reaction_loop(Tail(keys), session, stored, trades, inputs,
                                 prices)
              ELSE LET signal == Val(signal_data)
                       in == inputs[signal.pair]
                   IN  IF in.price.kind = "raised" \/ in.alert_raises
                       THEN [signals |-> stored, trades |-> trades,
                             prices |-> prices, raised |-> TRUE]
                       ELSE reaction_loop(
                                Tail(keys), session, Del(stored, key),
                                IF price_confirms(signal.direction,
                                                  in.price.value,
                                                  signal.entry_price)
                                THEN Put(trades, signal.pair, signal)
                                ELSE trades,
                                inputs,
                                Put(prices, signal.pair, in.price.value))

\* the jobs of a day in the order of their cron triggers
DayPlan ==
    <<[job |-> "fundamental", session |-> "London"],
      [job |-> "technical", session |-> "London"],
      [job |-> "generation", session |-> "London"],
      [job |-> "reaction", session |-> "London"],
      [job |-> "fundamental", session |-> "NewYork"],
      [job |-> "technical", session |-> "NewYork"],
      [job |-> "generation", session |-> "NewYork"],
      [job |-> "reaction", session |-> "NewYork"],
      [job |-> "summary", session |-> ""]>>

\* days the scheduler is followed for; sched_clock counts the jobs run plus one
MaxDays == 1
Slot == ((sched_clock - 1) % Len(DayPlan)) + 1
Due(job) == sched_clock <= MaxDays * Len(DayPlan) /\ DayPlan[Slot].job = job
DueSession == DayPlan[Slot].session
Tick == sched_clock' = sched_clock + 1
PairSet == {SchedPairs[i] : i \in 1..Len(SchedPairs)}

RunFundamentalScreening ==
    /\ Due("fundamental")
    /\ \E fundamental_signals \in [PairSet -> UNION {SchedFundamentals(q) : q \in PairSet}],
          analysis_raises \in BOOLEAN :
         /\ \A q \in PairSet : fundamental_signals[q] \in SchedFundamentals(q)
         /\ sched_active_signals' =
              IF analysis_raises THEN sched_active_signals
              ELSE store_fundamentals(SchedPairs, DueSession, fundamental_signals,
                                      sched_active_signals)
         /\ sched_log' = Some([job |-> "fundamental", session |-> DueSession,
                               reached |-> <<>>, prices |-> <<>>,
                               raised |-> analysis_raises])
    /\ Tick
    /\ UNCHANGED sched_active_trades
    /\ UNCHANGED <<core_vars, mid_vars, scan_vars, mon_vars, align_vars, cal_vars>>

RunTechnicalAnalysis ==
    /\ Due("technical")
    /\ \E inputs \in [PairSet -> TechnicalInputs] :
         LET done == technical_loop(SchedPairs, DueSession, sched_active_signals,
                                    inputs, <<>>)
         IN  /\ sched_active_signals' = done.signals
             /\ sched_log' = Some([job |-> "technical", session |-> DueSession,
                                   reached |-> done.reached,
                                   prices |-> <<>>,
                                   raised |-> done.raised])
    /\ Tick
    /\ UNCHANGED sched_active_trades
    /\ UNCHANGED <<core_vars, mid_vars, scan_vars, mon_vars, align_vars, cal_vars>>

RunSessionSignalGeneration ==
    /\ Due("generation")
    /\ \E inputs \in [PairSet -> GenerationInputs] :
         LET pairs == pairs_to_analyze(Keys(sched_active_signals), DueSession)
             done == generation_loop(pairs, DueSession, sched_active_signals,
                                     inputs, <<>>)
         IN  /\ sched_active_signals' = done.signals
             /\ sched_log' = Some([job |-> "generation", session |-> DueSession,
                                   reached |-> done.reached,
                                   prices |-> <<>>,
                                   raised |-> FALSE])
    /\ Tick
    /\ UNCHANGED sched_active_trades
    /\ UNCHANGED <<core_vars, mid_vars, scan_vars, mon_vars, align_vars, cal_vars>>

RunMarketReaction ==
    /\ Due("reaction")
    /\ \E inputs \in [PairSet -> ReactionInputs] :
         LET done == reaction_loop(Keys(sched_active_signals), DueSession,
                                   sched_active_signals, sched_active_trades,
                                   inputs, <<>>)
         IN  /\ sched_active_signals' = done.signals
             /\ sched_active_trades' = done.trades
             /\ sched_log' = Some([job |-> "reaction", session |-> DueSession,
                                   reached |-> <<>>,
                                   prices |-> done.prices,
                                   raised |-> done.raised])
    /\ Tick
    /\ UNCHANGED <<core_vars, mid_vars, scan_vars, mon_vars, align_vars, cal_vars>>

RunDailySummary ==
    /\ Due("summary")
    /\ sched_active_signals' = <<>>
    /\ sched_log' = Some([job |-> "summary", session |-> "",
                          reached |-> <<>>, prices |-> <<>>,
                          raised |-> FALSE])
    /\ Tick
    /\ UNCHANGED sched_active_trades
    /\ UNCHANGED <<core_vars, mid_vars, scan_vars, mon_vars, align_vars, cal_vars>>

NextSched ==
    \/ RunFundamentalScreening
    \/ RunTechnicalAnalysis
    \/ RunSessionSignalGeneration
    \/ RunMarketReaction
    \/ RunDailySummary

SpecSched == Init /\ [][NextSched]_vars

\* a step that ran a job, and the record of that run
JobRan(job) ==
    sched_clock' # sched_clock /\ sched_log' # None /\ Val(sched_log').job = job
Ran == Val(sched_log')
WasReached(pair) == \E j \in 1..Len(Ran.reached) : Ran.reached[j] = pair

\* C24: in the technical-analysis job and in the signal-generation job (the
\* loop of generate_signals and the enrichment loop) an error raised for one
\* pair abandons only that pair: every other pair that has an entry for the
\* session when the job starts is still processed in that run.
C24_PerPairFailureIsolation ==
    [][(JobRan("technical") \/ JobRan("generation")) =>
          \A i \in 1..Len(SchedPairs) :
              HasKey(sched_active_signals, signal_key(SchedPairs[i], Ran.session))
                  => WasReached(SchedPairs[i])]_vars

\* C27: a pair is handed to the SignalGenerator by a session's
\* signal-generation job only if its entry for that session holds a
\* fundamental signal and the H4 trend the technical job found for it, and
\* that trend confirms the fundamental signal.
C27_OnlyConfirmedPairsAnalysed ==
    [][JobRan("generation") =>
          \A j \in 1..Len(Ran.reached) :
              LET key == signal_key(Ran.reached[j], Ran.session) IN
              /\ HasKey(sched_active_signals, key)
              /\ Get(sched_active_signals, key).trends # None
              /\ _check_trend_alignment(
                     Get(sched_active_signals, key).fundamental,
                     Val(Get(sched_active_signals, key).trends).H4)]_vars

\* C28: a market-reaction job removes every complete signal of its session
\* from active_signals and puts it in active_trades exactly when the price
\* seen confirms it (long: price >= 0.999 x entry, short: price <= 1.001 x
\* entry); entries of the other session and entries without a complete
\* signal stay as they were.
C28_ReactionResolvesEverySignal ==
    [][JobRan("reaction") =>
          \A i \in 1..Len(sched_active_signals) :
              LET key == sched_active_signals[i].key
                  entry == sched_active_signals[i].value
              IN  IF Contains(key, text_of(Ran.session))
                     /\ entry.complete_signal # None
                  THEN LET signal == Val(entry.complete_signal) IN
                       /\ ~HasKey(sched_active_signals', key)
                       /\ HasKey(Ran.prices, signal.pair)
                       /\ IF price_confirms(signal.direction,
                                            Get(Ran.prices, signal.pair),
                                            signal.entry_price)
                          THEN /\ HasKey(sched_active_trades', signal.pair)
                               /\ Get(sched_active_trades', signal.pair) = signal
                          ELSE /\ HasKey(sched_active_trades', signal.pair)
                                    <=> HasKey(sched_active_trades, signal.pair)
                               /\ HasKey(sched_active_trades, signal.pair) =>
                                    Get(sched_active_trades', signal.pair)
                                        = Get(sched_active_trades, signal.pair)
                  ELSE /\ HasKey(sched_active_signals', key)
                       /\ Get(sched_active_signals', key) = entry]_vars

----------------------------------------------------------------------------
(* data/forex_factory_api.py: fetch_calendar with its fallback, and the
   fundamental analysis of what it returns *)

CalendarEvent(currency, impact, event_name, actual, forecast) ==
    [currency |-> currency, impact |-> impact, event_name |-> event_name,
     actual |-> actual, forecast |-> forecast]

\* mutant: mock events that carry an actual value
_get_mock_events_with_actuals ==
    <<CalendarEvent("USD", "HIGH", "Non-Farm Payrolls (NFP)",
                    NumberString(2500), NumberString(2000)),
      CalendarEvent("GBP", "HIGH", "Bank of England Rate Decision",
                    PercentString(52), PercentString(52))>>

\* the five mock events, today's and tomorrow's; "200K" is 200.0 and
\* "5.25%" is kept as 52 tenths; every actual is None
_get_mock_events ==
    <<CalendarEvent("USD", "HIGH", "Non-Farm Payrolls (NFP)",
                    NoValue, NumberString(2000)),
      CalendarEvent("GBP", "HIGH", "Bank of England Rate Decision",
                    NoValue, PercentString(52)),
      CalendarEvent("USD", "HIGH", "FOMC Statement", NoValue, NoValue),
      CalendarEvent("USD", "HIGH", "CPI m/m", NoValue, PercentString(3)),
      CalendarEvent("EUR", "HIGH", "ECB Press Conference", NoValue, NoValue)>>

\* events a parsed calendar page can hold
MaxCalendarEvents == 2
ParsedEvents ==
    {CalendarEvent(c, impact, name, NumberString(v[1]), NumberString(v[2])) :
        c \in {"GBP", "USD"}, impact \in {"HIGH", "LOW"},
        name \in {"GDP", "Jobless Claims"}, v \in {<<20, 15>>, <<10, 22>>}}

\* what session.get and the parsing can do: a page with status 200 that
\* parses, status 403, another error status (raise_for_status raises
\* HTTPError), a RequestException of the request itself, any other exception
CalendarResponses ==
    {[kind |-> "page", status_code |-> 200, events |-> es]
        : es \in SeqsUpTo(ParsedEvents, MaxCalendarEvents)}
    \cup {[kind |-> "page", status_code |-> code, events |-> <<>>]
            : code \in {403, 500}}
    \cup {[kind |-> k, status_code |-> 0, events |-> <<>>]
            : k \in {"RequestException", "Exception"}}

fetch_calendar(response) ==
    IF response.kind = "page"
    THEN (IF response.status_code = 403 THEN Returned(_get_mock_events)
          ELSE IF response.status_code >= 400 THEN Returned(_get_mock_events)
          ELSE Returned(response.events))
    ELSE Returned(_get_mock_events)

\* get_relevant_news for one pair: the high-impact events of its currencies
get_relevant_news(pair, all_events) ==
    SelectSeq(all_events,
              LAMBDA e : e.impact = "HIGH"
                         /\ e.currency \in {base_currency(pair),
                                            quote_currency(pair)})

\* one fetch_calendar and analyze_today over all pairs on what it returned
FetchCalendar ==
    /\ cal_call = None
    /\ \E response \in CalendarResponses :
         LET outcome == fetch_calendar(response) IN
         cal_call' =
           Some([response |-> response,
                 outcome |-> outcome,
                 signals |->
                   [pair \in CurrencyPair |->
                      IF outcome.kind = "returned"
                      THEN analyze_today_events(
                               pair, get_relevant_news(pair, outcome.value))
                      ELSE None]])
    /\ UNCHANGED <<core_vars, mid_vars, scan_vars, mon_vars, sched_vars, align_vars>>

NextCalendar == FetchCalendar

SpecCalendar == Init /\ [][NextCalendar]_vars

FetchFailed(response) ==
    response.kind # "page" \/ response.status_code # 200

\* C30: when the calendar fetch fails (status 403, a request error, any
\* other exception) fetch_calendar returns its mock events and does not
\* raise, and for every pair the analysis of those events gives no
\* fundamental signal, so generate_signal stops at its fundamental gate.
C30_MockEventsGiveNoSignal ==
    (cal_call # None /\ FetchFailed(Val(cal_call).response)) =>
        /\ Val(cal_call).outcome.kind = "returned"
        /\ Val(cal_call).outcome.value = _get_mock_events
        /\ \A pair \in CurrencyPair :
              /\ Val(cal_call).signals[pair] = None
              /\ fundamental_gate(Val(cal_call).signals[pair]) # "ok"

\* a request error answered with the five mock events, which reach the
\* analysis of every pair
C30_Witness ==
    /\ cal_call # None
    /\ Val(cal_call).response.kind = "RequestException"
    /\ Val(cal_call).outcome = Returned(_get_mock_events)
    /\ Len(Val(cal_call).outcome.value) = 5
    /\ \A pair \in CurrencyPair :
          get_relevant_news(pair, Val(cal_call).outcome.value) # <<>>

====
